---------------------------- MODULE Spec2Model ----------------------------
(***************************************************************************)
(* Model of the plant-knowledge subsystem of greenthumb-chat:              *)
(*   - trefle/client.ts : RateLimiter and TrefleClient.request             *)
(*   - trefle/extractors.ts : TrefleCache (TTL + size bounded store)       *)
(* Times are milliseconds, as Date.now() returns them.  Each action is one *)
(* synchronous run of JavaScript between two suspension points (await).    *)
(***************************************************************************)
EXTENDS Integers, Sequences, FiniteSets, TLC

\* ------------------------------------------------------------ constants
CACHE_TTL_MS == 5 * 60 * 1000
searchResultsMaxSize == 200
speciesMaxSize == 300
commonNameMaxSize == 300
MAX_RETRIES == 2
RETRY_DELAY_MS == 1000
windowMs == 60000
maxRequests == 100
maxPlants == 20

\* --------------------------------------------------------------- bounds
\* request() calls started in one behaviour
MaxStarted == 2
\* the clock is not advanced past this instant by idle waiting
MaxTime == 60000
\* fetches that fail in one behaviour
MaxFailures == 3
\* instants at which the entries of a filled cache were written
PrefillInstants == 3
\* instants reached after the time-to-live of the latest initial entry
MaxLate == 1
\* addPlant() calls in one behaviour
MaxAdds == 4
\* length of the search result that findBestMatch() is given
MaxResults == 3
\* calls of findPlantByName, getSpeciesById and getSpeciesBySlug in a behaviour
MaxCalls == 3
\* calls of initialize() in one behaviour
MaxInits == 5

\* the concurrent callers of request()
Procs == {1, 2}

\* instant of the initial states
StartTime == windowMs - 1000
\* gaps by which the clock advances while nothing else happens
ClientTicks == {1000}

\* Earlier traffic recorded by the limiter when a behaviour starts: <<a, b>>
\* stands for a calls recorded at instant 0 followed by b calls at instant 1000.
InitLoads == {<<0, 0>>, <<0, 99>>, <<1, 99>>}

LoadTimes(l) == [i \in 1..(l[1] + l[2]) |-> IF i <= l[1] THEN 0 ELSE 1000]

\* What one fetch() can come back with: a response, or a rejection (a network
\* error, an unreadable body, or the abort that the request timeout triggers).
Outcomes ==
    [kind : {"http"}, status : {200}, body : {1, 2}]
      \cup [kind : {"http"}, status : {400, 401, 404, 429, 500}, body : {0}]
      \cup [kind : {"rejected"}, status : {0}, body : {0}]

NoOutcome == [kind |-> "none", status |-> 0, body |-> 0]

\* A 2xx response whose body was read.
Success(o) == o.kind = "http" /\ o.status >= 200 /\ o.status <= 299

\* The transient failures: a 5xx response, or a rejection.
Transient(o) ==
    \/ o.kind = "rejected"
    \/ o.kind = "http" /\ o.status >= 500 /\ o.status <= 599

VARIABLES
    now,            \* Date.now()
    requestTimes,   \* RateLimiter.requestTimes
    outbound,       \* instants at which fetch() was called, in order
    failures,       \* number of fetch() calls that failed so far
    started,        \* number of request() calls started so far
    pc,             \* per caller: "idle", "fetching", "delaying", "done"
    attempt,        \* per caller: the loop variable of request()
    lastError,      \* per caller: the local lastError of request()
    wakeAt,         \* per caller: instant the pending delay() expires
    result,         \* per caller: what request() returned or threw
    calls,          \* per caller: fetch() calls made by the current request()
    received,       \* per caller: fetch() outcomes the current request() has seen
    lastOutcome,    \* per caller: the latest of these outcomes
    priorTransient, \* per caller: every outcome before the latest was transient
    timeline,       \* per caller: the instants at which the current request() was
                    \* called, last called fetch(), last saw fetch() fail, and left
    caches,         \* per TrefleCache instance: its Map, in insertion order
    cut,            \* the TrefleCache instance the cache operations are applied to
    lastSet,        \* per key: instant and payload of the set() that wrote its entry,
                    \* and whether a get() has answered with it since
    got,            \* the get() that was the latest cache operation, and its answer
    sweep,          \* what the latest cache operation removed, when it was a set()
                    \* that evicted or a cleanup()
    plants,         \* ConversationPlantRegistry.plants: its Map, in insertion order
    mentionOrder,   \* ConversationPlantRegistry.mentionOrder
    held,           \* the keys of plants in the order of their insertion
    lastAdd,        \* the addPlant() that was the latest registry operation
    recent,         \* the getRecentPlants() that was the latest registry operation
    adds,           \* number of addPlant() calls so far
    matchQuery,     \* findBestMatch: its argument query
    matchResults,   \* findBestMatch: its argument results
    bestMatch,      \* findBestMatch: what it returned
    task,           \* the latest call of findPlantByName, getSpeciesById or
                    \* getSpeciesBySlug: where it stands and what it did
    resolved,       \* per name: what the latest call returned and when, if it was
                    \* findPlantByName for that name
    resolveCalls,   \* number of these calls so far
    flights,        \* per concurrent caller of getSpeciesById: where its call stands
    batch,          \* getPlantInfo: its locals and where it stands
    rooms,          \* the conversations: which one is handled, what it registered
                    \* and what the registry returned to it
    extraction,     \* the extractor: its arguments and what it returned
    trefle,         \* client.ts: clientInstance, and the latest initializeTrefleClient
    context,        \* getPlantContext: its locals and where it stands
    runtime         \* AgentRuntimeManager: isInitialized, initializationPromise and
                    \* the callers of initialize()

limiterVars == <<requestTimes, outbound>>
procVars == <<failures, started, pc, attempt, lastError, wakeAt, result, calls, received, lastOutcome, priorTransient, timeline>>
cacheVars == <<caches, cut, lastSet, got, sweep>>
clientVars == <<limiterVars, procVars>>
registryVars == <<plants, mentionOrder, held, lastAdd, recent, adds>>
matchVars == <<matchQuery, matchResults, bestMatch>>
resolveVars == <<task, resolved, resolveCalls>>
\* the state of the callers modelled by themselves
bootVars == <<trefle, context, runtime>>
workVars == <<flights, batch, rooms, extraction, bootVars>>
\* what the steps of request(), of a cache and of the registry leave alone
outsideClient == <<cacheVars, registryVars, matchVars, resolveVars, workVars>>
outsideCache == <<clientVars, registryVars, matchVars, resolveVars, workVars>>
outsideRegistry == <<clientVars, cacheVars, matchVars, resolveVars, workVars>>
vars == <<now, limiterVars, procVars, cacheVars, registryVars, matchVars, resolveVars, workVars>>

Max(a, b) == IF a >= b THEN a ELSE b

\* ------------------------------------------------------------ RateLimiter
\* variant: the cutoff instant itself still counts as inside the window
SelectTimes_Inclusive(times, cutoff) == SelectSeq(times, LAMBDA t : t >= cutoff)

SelectTimes(times, cutoff) == SelectSeq(times, LAMBDA t : t > cutoff)

Cleanup(times, t) == SelectTimes(times, t - windowMs)

\* variant: the comparison with the ceiling is off by one
CanMakeRequest_OffByOne(times, t) ==
    LET kept == SelectSeq(times, LAMBDA x : x > t - windowMs)
    IN  [ok |-> Len(kept) <= maxRequests, times |-> kept]

CanMakeRequest(times, t) ==
    LET kept == Cleanup(times, t)
    IN  [ok |-> Len(kept) < maxRequests, times |-> kept]

RecordRequest(times, t) == Append(times, t)

\* ------------------------------------------------------------ errors
NoError == [name |-> "none", message |-> "", status |-> 0]
CapacityError == [name |-> "Error", message |-> "Rate limit exceeded", status |-> 0]
TrefleNotFoundError == [name |-> "TrefleNotFoundError", message |-> "Resource not found", status |-> 0]
TrefleAuthError == [name |-> "TrefleAuthError", message |-> "Invalid or expired API token", status |-> 0]
TrefleRateLimitError == [name |-> "TrefleRateLimitError", message |-> "API rate limit exceeded", status |-> 0]
ServerError(s) == [name |-> "Error", message |-> "Server error", status |-> s]
ApiError(s) == [name |-> "Error", message |-> "API error", status |-> s]
FetchError(k) == [name |-> "Error", message |-> k, status |-> 0]

\* ------------------------------------------------------------ request()
\* variant: an upstream 429 is retried like a server error
TryBlock_Retry429(o) ==
    IF o.kind = "http" THEN
        IF o.status >= 200 /\ o.status <= 299 THEN [do |-> "return", err |-> NoError]
        ELSE IF o.status = 404 THEN [do |-> "throw", err |-> TrefleNotFoundError]
        ELSE IF o.status = 401 THEN [do |-> "throw", err |-> TrefleAuthError]
        ELSE IF o.status = 429 \/ o.status >= 500 THEN [do |-> "continue", err |-> ServerError(o.status)]
        ELSE [do |-> "throw", err |-> ApiError(o.status)]
    ELSE [do |-> "throw", err |-> FetchError(o.kind)]

\* The body of the try block for one fetch outcome: "return" the payload,
\* "continue" the loop with lastError set, or "throw" into the catch clause.
TryBlock(o) ==
    IF o.kind = "http" THEN
        IF o.status >= 200 /\ o.status <= 299 THEN [do |-> "return", err |-> NoError]
        ELSE IF o.status = 404 THEN [do |-> "throw", err |-> TrefleNotFoundError]
        ELSE IF o.status = 401 THEN [do |-> "throw", err |-> TrefleAuthError]
        ELSE IF o.status = 429 THEN [do |-> "throw", err |-> TrefleRateLimitError]
        ELSE IF o.status >= 500 THEN [do |-> "continue", err |-> ServerError(o.status)]
        ELSE [do |-> "throw", err |-> ApiError(o.status)]
    ELSE [do |-> "throw", err |-> FetchError(o.kind)]

\* variant: the catch clause rethrows whatever it caught
CatchClause_RethrowAll(e) == [do |-> "throw", err |-> e]

\* The catch clause: the three classified errors leave request(); any other
\* error is stored in lastError and the loop goes on.
CatchClause(e) ==
    IF e.name \in {"TrefleNotFoundError", "TrefleAuthError", "TrefleRateLimitError"}
    THEN [do |-> "throw", err |-> e]
    ELSE [do |-> "continue", err |-> e]

\* One pass of the loop body after fetch() settled with outcome o.
AttemptResult(o) ==
    LET t == TryBlock(o)
    IN  IF t.do = "throw" THEN CatchClause(t.err) ELSE t

\* variant: the first error is kept
NextLastError_KeepFirst(old, e) == IF old = NoError THEN e ELSE old

\* lastError after a failed attempt
NextLastError(old, e) == e

\* variant: every retry waits the base delay
RetryDelay_Constant(k) == RETRY_DELAY_MS

\* delay before retry number k
RetryDelay(k) == RETRY_DELAY_MS * k

Idle(p) == pc[p] \in {"idle", "done"}

\* no request() called yet
NoTimeline == [called |-> -1, fetched |-> -1, failed |-> -1, left |-> -1]

\* request(): the limiter check, then the first pass of the loop up to fetch().
Start(p) ==
    /\ Idle(p)
    /\ started < MaxStarted
    /\ now <= MaxTime
    /\ started' = started + 1
    /\ received' = [received EXCEPT ![p] = 0]
    /\ lastOutcome' = [lastOutcome EXCEPT ![p] = NoOutcome]
    /\ priorTransient' = [priorTransient EXCEPT ![p] = TRUE]
    /\ lastError' = [lastError EXCEPT ![p] = NoError]
    /\ attempt' = [attempt EXCEPT ![p] = 0]
    /\ LET c == CanMakeRequest(requestTimes, now)
       IN  IF c.ok
           THEN /\ requestTimes' = RecordRequest(c.times, now)
                /\ outbound' = Append(outbound, now)
                /\ pc' = [pc EXCEPT ![p] = "fetching"]
                /\ calls' = [calls EXCEPT ![p] = 1]
                /\ result' = [result EXCEPT ![p] = [kind |-> "pending", err |-> NoError, value |-> 0]]
                /\ timeline' = [timeline EXCEPT ![p] = [NoTimeline EXCEPT !.called = now, !.fetched = now]]
           ELSE /\ requestTimes' = c.times
                /\ outbound' = outbound
                /\ pc' = [pc EXCEPT ![p] = "done"]
                /\ calls' = [calls EXCEPT ![p] = 0]
                /\ result' = [result EXCEPT ![p] = [kind |-> "error", err |-> CapacityError, value |-> 0]]
                /\ timeline' = [timeline EXCEPT ![p] = [NoTimeline EXCEPT !.called = now, !.left = now]]
    /\ UNCHANGED <<now, wakeAt, failures>>

\* request() leaves with result r: its locals and timers are gone.
Leave(p, r) ==
    /\ pc' = [pc EXCEPT ![p] = "done"]
    /\ timeline' = [timeline EXCEPT ![p].left = now,
                                    ![p].failed = IF r.kind = "ok" THEN @ ELSE now]
    /\ result' = [result EXCEPT ![p] = r]
    /\ attempt' = [attempt EXCEPT ![p] = 0]
    /\ lastError' = [lastError EXCEPT ![p] = NoError]
    /\ wakeAt' = [wakeAt EXCEPT ![p] = 0]

\* fetch() settles with outcome o and the rest of the loop pass runs.
Respond(p, o) ==
    /\ pc[p] = "fetching"
    /\ IF Success(o) THEN failures' = failures
       ELSE failures < MaxFailures /\ failures' = failures + 1
    /\ now' = now
    /\ received' = [received EXCEPT ![p] = @ + 1]
    /\ lastOutcome' = [lastOutcome EXCEPT ![p] = o]
    /\ priorTransient' = [priorTransient EXCEPT ![p] = @ /\ (received[p] > 0 => Transient(lastOutcome[p]))]
    /\ LET r == AttemptResult(o)
       IN  CASE r.do = "return" ->
                  Leave(p, [kind |-> "ok", err |-> NoError, value |-> o.body])
             [] r.do = "throw" ->
                  Leave(p, [kind |-> "error", err |-> r.err, value |-> 0])
             [] r.do = "continue" ->
                  LET e == NextLastError(lastError[p], r.err)
                  IN  IF attempt[p] + 1 <= MAX_RETRIES
                      THEN /\ lastError' = [lastError EXCEPT ![p] = e]
                           /\ attempt' = [attempt EXCEPT ![p] = @ + 1]
                           /\ pc' = [pc EXCEPT ![p] = "delaying"]
                           /\ wakeAt' = [wakeAt EXCEPT ![p] = now + RetryDelay(attempt[p] + 1)]
                           /\ result' = result
                           /\ timeline' = [timeline EXCEPT ![p].failed = now]
                      ELSE Leave(p, [kind |-> "error", err |-> e, value |-> 0])
    /\ UNCHANGED <<requestTimes, outbound, started, calls>>

\* delay() expires: the next pass of the loop records the call and fetches.
Wake(p) ==
    /\ pc[p] = "delaying"
    /\ now' = Max(now, wakeAt[p])
    /\ requestTimes' = RecordRequest(requestTimes, now')
    /\ outbound' = Append(outbound, now')
    /\ pc' = [pc EXCEPT ![p] = "fetching"]
    /\ wakeAt' = [wakeAt EXCEPT ![p] = 0]
    /\ calls' = [calls EXCEPT ![p] = @ + 1]
    /\ timeline' = [timeline EXCEPT ![p].fetched = now']
    /\ UNCHANGED <<failures, started, attempt, lastError, result, received, lastOutcome, priorTransient>>

\* the clock advances while no callback runs
Tick(d) ==
    /\ now + d <= MaxTime
    /\ now' = now + d
    /\ UNCHANGED <<limiterVars, procVars>>

\* ------------------------------------------------------------ TrefleCache
\* Keys are numbered strings; a Map is the sequence of its entries in
\* insertion order, each entry [key, data, timestamp].
CacheNames == {"searchResults", "species", "commonName"}

MaxSize(c) ==
    CASE c = "searchResults" -> searchResultsMaxSize
      [] c = "species" -> speciesMaxSize
      [] c = "commonName" -> commonNameMaxSize

ttlMs(c) == CACHE_TTL_MS

\* get() and Map.get() answer null for a missing key
Null == 0
\* the payloads stored
Values == {1, 2}

Min(a, b) == IF a <= b THEN a ELSE b

Keys(es) == {es[i].key : i \in 1..Len(es)}
Has(es, k) == \E i \in 1..Len(es) : es[i].key = k
Lookup(es, k) == es[CHOOSE i \in 1..Len(es) : es[i].key = k]

\* Map.delete
MapDelete(es, k) == SelectSeq(es, LAMBDA e : e.key # k)

\* Map.set: an existing key keeps its place, a new key goes last
MapSet(es, e) ==
    IF Has(es, e.key)
    THEN [i \in 1..Len(es) |-> IF es[i].key = e.key THEN e ELSE es[i]]
    ELSE Append(es, e)

\* variant: an entry expires as soon as its age reaches the time-to-live
Expired_Inclusive(e, t, ttl) == t - e.timestamp >= ttl

Expired(e, t, ttl) == t - e.timestamp > ttl

\* variant: a hit renews the timestamp of the entry (sliding expiration)
CacheGet_Sliding(es, k, t, ttl) ==
    IF ~Has(es, k) THEN [value |-> Null, entries |-> es]
    ELSE LET e == Lookup(es, k)
         IN  IF Expired(e, t, ttl)
             THEN [value |-> Null, entries |-> MapDelete(es, k)]
             ELSE [value |-> e.data, entries |-> MapSet(es, [e EXCEPT !.timestamp = t])]

\* get(key): the value or null, and the Map afterwards
CacheGet(es, k, t, ttl) ==
    IF ~Has(es, k) THEN [value |-> Null, entries |-> es]
    ELSE LET e == Lookup(es, k)
         IN  IF Expired(e, t, ttl)
             THEN [value |-> Null, entries |-> MapDelete(es, k)]
             ELSE [value |-> e.data, entries |-> es]

RECURSIVE SortedTimes(_)
SortedTimes(S) ==
    IF S = {} THEN <<>>
    ELSE LET m == CHOOSE x \in S : \A y \in S : x <= y
         IN  <<m>> \o SortedTimes(S \ {m})

RECURSIVE ConcatByTime(_, _)
ConcatByTime(es, ts) ==
    IF ts = <<>> THEN <<>>
    ELSE SelectSeq(es, LAMBDA e : e.timestamp = Head(ts)) \o ConcatByTime(es, Tail(ts))

\* variant: the entries are not sorted, the first ones inserted are taken
SortByTimestamp_InsertionOrder(es) == es

\* [...entries()].sort((a, b) => a[1].timestamp - b[1].timestamp): the sort is
\* stable, entries with equal timestamps stay in insertion order
SortByTimestamp(es) ==
    ConcatByTime(es, SortedTimes({es[i].timestamp : i \in 1..Len(es)}))

\* Math.max(1, Math.floor(maxSize * 0.1))
EntriesToRemove(maxSize) == Max(1, maxSize \div 10)

EvictOldest(es, maxSize) ==
    LET sorted == SortByTimestamp(es)
        oldestKeys == {sorted[i].key : i \in 1..Min(EntriesToRemove(maxSize), Len(sorted))}
    IN  SelectSeq(es, LAMBDA e : e.key \notin oldestKeys)

\* variant: set() never evicts
CacheSet_NoEviction(es, k, v, t, maxSize) ==
    MapSet(es, [key |-> k, data |-> v, timestamp |-> t])

\* set(): the Map after the size test and evictOldest(), before the entry is written
SetSweep(es, maxSize) == IF Len(es) >= maxSize THEN EvictOldest(es, maxSize) ELSE es

\* set(key, data)
CacheSet(es, k, v, t, maxSize) ==
    MapSet(SetSweep(es, maxSize), [key |-> k, data |-> v, timestamp |-> t])

\* the entries of es up to its first entry that has not expired
RECURSIVE ExpiredPrefix(_, _, _)
ExpiredPrefix(es, t, ttl) ==
    IF es = <<>> \/ ~Expired(Head(es), t, ttl) THEN <<>>
    ELSE <<Head(es)>> \o ExpiredPrefix(Tail(es), t, ttl)

\* variant: the loop of cleanup() ends at the first entry that has not expired
CacheCleanup_StopAtFirst(es, t, ttl) ==
    LET gone == ExpiredPrefix(es, t, ttl)
    IN  [removed |-> Len(gone), entries |-> SubSeq(es, Len(gone) + 1, Len(es))]

\* cleanup(): the number of entries removed, and the Map afterwards
CacheCleanup(es, t, ttl) ==
    LET kept == SelectSeq(es, LAMBDA e : ~Expired(e, t, ttl))
    IN  [removed |-> Len(es) - Len(kept), entries |-> kept]

\* A cache that was filled with n keys and had some of them written again
\* later: key i was last written at instant i % PrefillInstants.
Prefill(n) == [i \in 1..n |-> [key |-> i, data |-> 1, timestamp |-> i % PrefillInstants]]

CacheStart == PrefillInstants - 1

\* the instants the clock takes while the cache operations run
CacheInstants ==
    {CacheStart} \cup {CACHE_TTL_MS + CacheStart + i : i \in 0..MaxLate}

\* one of the oldest keys of a filled cache
OldKey == PrefillInstants
\* a key that a filled cache does not hold
NewKey == 1001
\* keys the cache operations are applied to
TestKeys == {OldKey, NewKey}

\* a key whose entry no set() wrote, or whose entry is gone
NoSet == [at |-> -1, data |-> Null, hit |-> FALSE]
\* the latest cache operation was not a get()
NoGet == [key |-> 0, value |-> Null, set |-> NoSet]

\* the latest cache operation removed no entry in a sweep
NoSweep == [op |-> "none", before |-> <<>>, kept |-> <<>>, count |-> 0]

\* lastSet after a set(k, v) at instant t that left the entries es
Written(es, k, v, t) ==
    [x \in TestKeys |->
        IF x = k THEN [at |-> t, data |-> v, hit |-> FALSE]
        ELSE IF x \notin Keys(es) THEN NoSet ELSE lastSet[x]]

\* lastSet after another operation, which left the entries es
Remaining(es) ==
    [x \in TestKeys |-> IF x \notin Keys(es) THEN NoSet ELSE lastSet[x]]

\* lastSet after a get(k) that answered v and left the entries es
Read(es, k, v) ==
    [x \in TestKeys |->
        IF x \notin Keys(es) THEN NoSet
        ELSE IF x = k /\ v # Null THEN [lastSet[x] EXCEPT !.hit = TRUE] ELSE lastSet[x]]

SetAct(k, v) ==
    /\ caches' = [caches EXCEPT ![cut] = CacheSet(@, k, v, now, MaxSize(cut))]
    /\ lastSet' = Written(caches'[cut], k, v, now)
    /\ got' = NoGet
    /\ sweep' = LET kept == SetSweep(caches[cut], MaxSize(cut))
                IN  IF kept = caches[cut] THEN NoSweep
                    ELSE [op |-> "set", before |-> caches[cut], kept |-> kept, count |-> 0]
    /\ UNCHANGED <<now, cut, outsideCache>>

GetAct(k) ==
    /\ caches' = [caches EXCEPT ![cut] = CacheGet(@, k, now, ttlMs(cut)).entries]
    /\ lastSet' = Read(caches'[cut], k, CacheGet(caches[cut], k, now, ttlMs(cut)).value)
    /\ got' = [key |-> k, value |-> CacheGet(caches[cut], k, now, ttlMs(cut)).value, set |-> lastSet[k]]
    /\ sweep' = NoSweep
    /\ UNCHANGED <<now, cut, outsideCache>>

DeleteAct(k) ==
    /\ caches' = [caches EXCEPT ![cut] = MapDelete(@, k)]
    /\ lastSet' = Remaining(caches'[cut])
    /\ got' = NoGet
    /\ sweep' = NoSweep
    /\ UNCHANGED <<now, cut, outsideCache>>

CleanupAct ==
    /\ caches' = [caches EXCEPT ![cut] = CacheCleanup(@, now, ttlMs(cut)).entries]
    /\ lastSet' = Remaining(caches'[cut])
    /\ got' = NoGet
    /\ sweep' = [op |-> "cleanup", before |-> caches[cut], kept |-> <<>>,
                 count |-> CacheCleanup(caches[cut], now, ttlMs(cut)).removed]
    /\ UNCHANGED <<now, cut, outsideCache>>

ClearAct ==
    /\ caches' = [caches EXCEPT ![cut] = <<>>]
    /\ lastSet' = Remaining(caches'[cut])
    /\ got' = NoGet
    /\ sweep' = NoSweep
    /\ UNCHANGED <<now, cut, outsideCache>>

CacheTick(t) ==
    /\ t > now
    /\ now' = t
    /\ got' = NoGet
    /\ sweep' = NoSweep
    /\ UNCHANGED <<caches, cut, lastSet, outsideCache>>

\* ------------------------------------------------------------ strings
\* A string is the sequence of its characters: letters in both cases, the
\* space, the hyphen and punctuation.
NoString == <<"null">>

\* a string is truthy unless it is null or empty
Truthy(str) == str # NoString /\ str # <<>>

UpperCaseLetters ==
    <<"A", "B", "C", "D", "E", "F", "G", "H", "I", "J", "K", "L", "M",
       "N", "O", "P", "Q", "R", "S", "T", "U", "V", "W", "X", "Y", "Z">>

LowerCaseLetters ==
    <<"a", "b", "c", "d", "e", "f", "g", "h", "i", "j", "k", "l", "m",
       "n", "o", "p", "q", "r", "s", "t", "u", "v", "w", "x", "y", "z">>

\* the lower-case letter of each upper-case letter
LowerOf ==
    [c \in {UpperCaseLetters[i] : i \in 1..26} |->
        LowerCaseLetters[CHOOSE i \in 1..26 : UpperCaseLetters[i] = c]]

LowerChar(c) == IF c \in DOMAIN LowerOf THEN LowerOf[c] ELSE c

\* String.prototype.toLowerCase
ToLowerCase(str) == [i \in 1..Len(str) |-> LowerChar(str[i])]

RECURSIVE TrimStart(_)
TrimStart(str) ==
    IF str # <<>> /\ Head(str) = " " THEN TrimStart(Tail(str)) ELSE str

RECURSIVE TrimEnd(_)
TrimEnd(str) ==
    IF str # <<>> /\ str[Len(str)] = " " THEN TrimEnd(SubSeq(str, 1, Len(str) - 1)) ELSE str

\* String.prototype.trim
Trim(str) == TrimEnd(TrimStart(str))

\* ------------------------------------------------------------ species
\* The records of the remote source that occur, as { id, slug,
\* scientific_name, common_name }: one has no common name, one has a blank one.
Species ==
    << [id |-> 1, slug |-> <<"a", "b">>, scientific_name |-> <<"A", "b">>,
        common_name |-> <<"B", "a">>],
       [id |-> 2, slug |-> <<"a", "b", "b">>, scientific_name |-> <<"A", "b", "b">>,
        common_name |-> NoString],
       [id |-> 3, slug |-> <<"b", "a", "-", "b">>, scientific_name |-> <<"B", "a", " ", "b">>,
        common_name |-> <<"A", "b">>],
       [id |-> 4, slug |-> <<"b", "b">>, scientific_name |-> <<"B", "b">>,
        common_name |-> <<" ">>] >>

\* processSpeciesData: the fields of the profile that the registry, the caches
\* and the name resolution read
ProcessSpeciesData(raw) ==
    [id |-> raw.id, slug |-> raw.slug, scientificName |-> raw.scientific_name,
     commonName |-> raw.common_name]

Profiles == {ProcessSpeciesData(Species[i]) : i \in 1..Len(Species)}

\* ------------------------------------------------------------ ConversationPlantRegistry
\* plants is the sequence of its entries [key, plant] in insertion order.
EmptyRegistry == [plants |-> <<>>, mentionOrder |-> <<>>, held |-> <<>>]

\* the keys of plants in insertion order, after an addPlant of key nk
HeldAfter(before, nk, ps) ==
    SelectSeq(IF \E i \in 1..Len(before) : before[i] = nk THEN before ELSE Append(before, nk),
              LAMBDA k : Has(ps, k))

\* variant: the key is pushed on mentionOrder whether it is new or not
AddPlant_AlwaysPush(r, key, plant) ==
    LET normalizedKey == Trim(ToLowerCase(key))
        full == Len(r.mentionOrder) >= maxPlants
        oldestKey == Head(r.mentionOrder)
        ps == IF full /\ Truthy(oldestKey) THEN MapDelete(r.plants, oldestKey) ELSE r.plants
        mo == IF full THEN Tail(r.mentionOrder) ELSE r.mentionOrder
        ps2 == MapSet(ps, [key |-> normalizedKey, plant |-> plant])
    IN  [plants |-> ps2,
         mentionOrder |-> Append(mo, normalizedKey),
         held |-> HeldAfter(r.held, normalizedKey, ps2)]

\* addPlant(key, plant)
AddPlant(r, key, plant) ==
    LET normalizedKey == Trim(ToLowerCase(key))
        isNew == ~Has(r.plants, normalizedKey)
        full == isNew /\ Len(r.mentionOrder) >= maxPlants
        oldestKey == Head(r.mentionOrder)
        ps == IF full /\ Truthy(oldestKey) THEN MapDelete(r.plants, oldestKey) ELSE r.plants
        mo == IF full THEN Tail(r.mentionOrder) ELSE r.mentionOrder
        ps2 == MapSet(ps, [key |-> normalizedKey, plant |-> plant])
    IN  [plants |-> ps2,
         mentionOrder |-> IF isNew THEN Append(mo, normalizedKey) ELSE mo,
         held |-> HeldAfter(r.held, normalizedKey, ps2)]

\* Array.prototype.slice(start): a negative start counts from the end
Slice(arr, start) ==
    LET k == IF start < 0 THEN Max(Len(arr) + start, 0) ELSE Min(start, Len(arr))
    IN  SubSeq(arr, k + 1, Len(arr))

Reverse(arr) == [i \in 1..Len(arr) |-> arr[Len(arr) + 1 - i]]

\* variant: the result is not reversed
GetRecentPlants_OldestFirst(r, count) ==
    LET recentKeys == Slice(r.mentionOrder, -count)
        found == SelectSeq(recentKeys, LAMBDA k : Has(r.plants, k))
    IN  [i \in 1..Len(found) |-> Lookup(r.plants, found[i]).plant]

\* getRecentPlants(count)
GetRecentPlants(r, count) ==
    LET recentKeys == Slice(r.mentionOrder, -count)
        found == SelectSeq(recentKeys, LAMBDA k : Has(r.plants, k))
    IN  Reverse([i \in 1..Len(found) |-> Lookup(r.plants, found[i]).plant])

\* the registry as the variables hold it
Registry == [plants |-> plants, mentionOrder |-> mentionOrder, held |-> held]

\* the latest registry operation was not an addPlant()
NoAdd == [key |-> NoString, before |-> <<>>]
\* the latest registry operation was not a getRecentPlants()
NoRecent == [count |-> -1, result |-> <<>>]

\* the calls addPlant(key, plant) made for a profile: with its slug, and with
\* its common name when it has one
AddPlantCalls(plant) ==
    {<<plant.slug, plant>>} \cup
        (IF Truthy(plant.commonName) THEN {<<plant.commonName, plant>>} ELSE {})

RegistryCalls == UNION {AddPlantCalls(plant) : plant \in Profiles}

\* the counts getRecentPlants() is called with
Counts == {0, 1, 3, maxPlants + 1}

\* the i-th of the keys that fill a registry: five letters, the binary digits of i
FillKey(i) == [j \in 1..5 |-> IF (i \div (2 ^ (j - 1))) % 2 = 1 THEN "b" ELSE "a"]

\* the i-th of the profiles that fill a registry, registered under its slug
FillProfile(i) ==
    [id |-> 100 + i, slug |-> FillKey(i), scientificName |-> FillKey(i), commonName |-> NoString]

\* the registry after addPlant(added[i][1], added[i][2]) for i = 1, .., Len(added),
\* for at most maxPlants added whose keys differ after normalisation
Filled(added) ==
    LET normalized == [i \in 1..Len(added) |-> Trim(ToLowerCase(added[i][1]))]
    IN  [plants |-> [i \in 1..Len(added) |-> [key |-> normalized[i], plant |-> added[i][2]]],
         mentionOrder |-> normalized,
         held |-> normalized]

\* Earlier addPlant() added: none, or 20 added with different keys, the first
\* of them blank or not.
RegistryLoads ==
    { <<>>,
      [i \in 1..maxPlants |-> <<FillKey(i), FillProfile(i)>>],
      [i \in 1..maxPlants |->
          IF i = 1 THEN <<Species[4].common_name, ProcessSpeciesData(Species[4])>>
          ELSE <<FillKey(i), FillProfile(i)>>] }

AddPlantAct(key, plant) ==
    /\ adds < MaxAdds
    /\ adds' = adds + 1
    /\ LET r == AddPlant(Registry, key, plant)
       IN  /\ plants' = r.plants
           /\ mentionOrder' = r.mentionOrder
           /\ held' = r.held
    /\ lastAdd' = [key |-> Trim(ToLowerCase(key)), before |-> held]
    /\ recent' = NoRecent
    /\ UNCHANGED <<now, outsideRegistry>>

GetRecentAct(count) ==
    /\ recent' = [count |-> count, result |-> GetRecentPlants(Registry, count)]
    /\ lastAdd' = NoAdd
    /\ UNCHANGED <<now, outsideRegistry, plants, mentionOrder, held, adds>>

\* clear()
ClearRegistryAct ==
    /\ plants' = <<>>
    /\ mentionOrder' = <<>>
    /\ held' = <<>>
    /\ lastAdd' = NoAdd
    /\ recent' = NoRecent
    /\ UNCHANGED <<now, outsideRegistry, adds>>

\* the registry of a freshly loaded module
RegistryEmpty ==
    /\ plants = <<>>
    /\ mentionOrder = <<>>
    /\ held = <<>>
    /\ lastAdd = NoAdd
    /\ recent = NoRecent
    /\ adds = 0

\* ------------------------------------------------------------ findBestMatch
\* String.prototype.startsWith
StartsWith(str, prefix) ==
    Len(prefix) <= Len(str) /\ SubSeq(str, 1, Len(prefix)) = prefix

\* String.prototype.includes
Includes(str, part) ==
    \E i \in 0..(Len(str) - Len(part)) : SubSeq(str, i + 1, i + Len(part)) = part

\* the matchers of findBestMatch, in the order of the array
NumMatchers == 5

Matcher(m, r, q) ==
    CASE m = 1 -> r.common_name # NoString /\ ToLowerCase(r.common_name) = q
      [] m = 2 -> ToLowerCase(r.scientific_name) = q
      [] m = 3 -> r.common_name # NoString /\ StartsWith(ToLowerCase(r.common_name), q)
      [] m = 4 -> StartsWith(ToLowerCase(r.scientific_name), q)
      [] m = 5 -> r.common_name # NoString /\ Includes(ToLowerCase(r.common_name), q)

\* Array.prototype.find with matcher m: the index of the first element that
\* satisfies it, 0 when there is none
FindIndex(results, m, q) ==
    IF \E i \in 1..Len(results) : Matcher(m, results[i], q)
    THEN CHOOSE i \in 1..Len(results) :
            /\ Matcher(m, results[i], q)
            /\ \A j \in 1..(i - 1) : ~Matcher(m, results[j], q)
    ELSE 0

\* the loop over the matchers, from matcher m on
RECURSIVE MatchFrom(_, _, _)
MatchFrom(m, results, q) ==
    IF m > NumMatchers THEN results[1]
    ELSE IF FindIndex(results, m, q) # 0 THEN results[FindIndex(results, m, q)]
    ELSE MatchFrom(m + 1, results, q)

\* variant: the loop takes the matchers of the scientific name first
RECURSIVE MatchFromScientificFirst(_, _, _)
MatchFromScientificFirst(order, results, q) ==
    IF order = <<>> THEN results[1]
    ELSE IF FindIndex(results, Head(order), q) # 0
         THEN results[FindIndex(results, Head(order), q)]
         ELSE MatchFromScientificFirst(Tail(order), results, q)

FindBestMatch_ScientificFirst(query, results) ==
    MatchFromScientificFirst(<<2, 1, 4, 3, 5>>, results, Trim(ToLowerCase(query)))

\* findBestMatch(query, results), for a result list that is not empty
FindBestMatch(query, results) == MatchFrom(1, results, Trim(ToLowerCase(query)))

\* no search result
NoSpecies == [id |-> 0, slug |-> NoString, scientific_name |-> NoString, common_name |-> NoString]

\* The search results findBestMatch() is given are made of the records above
\* and of two more, whose common names start with and contain the query.
Candidates ==
    Species \o
    << [id |-> 5, slug |-> <<"b", "b", "a">>, scientific_name |-> <<"B", "b", "a">>,
        common_name |-> <<"A", "b", "b">>],
       [id |-> 6, slug |-> <<"b", "b", "b">>, scientific_name |-> <<"B", "b", "b">>,
        common_name |-> <<"B", "a", "b">>] >>

\* the names findBestMatch() is given
Queries == { <<"a", "b">>, <<" ", "A", "b", " ">>, <<"a">>, <<"b", "b", "b", "b">> }

ResultLists ==
    UNION {[1..n -> {Candidates[i] : i \in 1..Len(Candidates)}] : n \in 1..MaxResults}

FindBestMatchAct ==
    /\ bestMatch = NoSpecies
    /\ bestMatch' = FindBestMatch(matchQuery, matchResults)
    /\ UNCHANGED <<now, clientVars, cacheVars, registryVars, resolveVars, workVars, matchQuery, matchResults>>

\* findBestMatch() is not running
NoMatching ==
    /\ matchQuery = <<>>
    /\ matchResults = <<>>
    /\ bestMatch = NoSpecies

\* ------------------------------------------------------------ name resolution
\* null, where a profile is expected
NoProfile == [id |-> 0, slug |-> NoString, scientificName |-> NoString, commonName |-> NoString]

Digit(d) == <<"0", "1", "2", "3", "4", "5", "6", "7", "8", "9">>[d + 1]

\* String(n), for a number n that is not negative
RECURSIVE NumberToString(_)
NumberToString(n) ==
    IF n < 10 THEN <<Digit(n)>> ELSE Append(NumberToString(n \div 10), Digit(n % 10))

\* createSpeciesKey(idOrSlug), given String(idOrSlug)
createSpeciesKey(idOrSlug) == ToLowerCase(idOrSlug)

\* replace(/\s+/g, " ")
RECURSIVE CollapseSpaces(_)
CollapseSpaces(str) ==
    IF Len(str) < 2 THEN str
    ELSE IF str[1] = " " /\ str[2] = " " THEN CollapseSpaces(Tail(str))
    ELSE <<str[1]>> \o CollapseSpaces(Tail(str))

normalizeSearchKey(query) == CollapseSpaces(Trim(ToLowerCase(query)))

\* Array.prototype.slice(0, end)
SliceTo(arr, end) == SubSeq(arr, 1, Min(end, Len(arr)))

\* what findPlant() compares the query with, for one plant
PlantMatches(plant, normalizedQuery) ==
    \/ Includes(ToLowerCase(plant.scientificName), normalizedQuery)
    \/ plant.commonName # NoString /\ Includes(ToLowerCase(plant.commonName), normalizedQuery)
    \/ Includes(plant.slug, normalizedQuery)

\* ConversationPlantRegistry.findPlant(query)
FindPlant(r, query) ==
    LET normalizedQuery == Trim(ToLowerCase(query))
        hits == {i \in 1..Len(r.plants) : PlantMatches(r.plants[i].plant, normalizedQuery)}
    IN  IF Has(r.plants, normalizedQuery) THEN Lookup(r.plants, normalizedQuery).plant
        ELSE IF hits # {} THEN r.plants[CHOOSE i \in hits : \A j \in hits : i <= j].plant
        ELSE NoProfile

\* the three caches and the registry
Stores == [caches |-> caches, registry |-> Registry]

EmptyStores == [caches |-> [c \in CacheNames |-> <<>>], registry |-> EmptyRegistry]

\* if (cached): get() answered with the payload of an entry, an array or an
\* object, and not with null
CacheHit(g, k) == Has(g.entries, k)

\* variant: an empty array counts as no answer
SearchHit_NonEmpty(g, k) == Has(g.entries, k) /\ Len(g.value) > 0

\* searchPlants: if (cached)
SearchHit(g, k) == CacheHit(g, k)

\* variant: the profile is stored under the key of the request only
StoreSpecies_OneKey(st, cacheKey, otherKey, processed, t) ==
    LET sp == CacheSet(st.caches["species"], cacheKey, processed, t, speciesMaxSize)
        cn == IF Truthy(processed.commonName)
              THEN CacheSet(st.caches["commonName"], ToLowerCase(processed.commonName),
                            processed, t, commonNameMaxSize)
              ELSE st.caches["commonName"]
        r1 == AddPlant(st.registry, processed.slug, processed)
        r2 == IF Truthy(processed.commonName)
              THEN AddPlant(r1, processed.commonName, processed) ELSE r1
    IN  [caches |-> [st.caches EXCEPT !["species"] = sp, !["commonName"] = cn],
         registry |-> r2]

\* getSpeciesById, getSpeciesBySlug: the statements after processSpeciesData
StoreSpecies(st, cacheKey, otherKey, processed, t) ==
    LET sp1 == CacheSet(st.caches["species"], cacheKey, processed, t, speciesMaxSize)
        sp2 == CacheSet(sp1, otherKey, processed, t, speciesMaxSize)
        cn == IF Truthy(processed.commonName)
              THEN CacheSet(st.caches["commonName"], ToLowerCase(processed.commonName),
                            processed, t, commonNameMaxSize)
              ELSE st.caches["commonName"]
        r1 == AddPlant(st.registry, processed.slug, processed)
        r2 == IF Truthy(processed.commonName)
              THEN AddPlant(r1, processed.commonName, processed) ELSE r1
    IN  [caches |-> [st.caches EXCEPT !["species"] = sp2, !["commonName"] = cn],
         registry |-> r2]

\* A call of the client returns, or stops at its next request().
Returns(tk, v) == [tk EXCEPT !.pc = "done", !.outcome = "returned", !.value = v]

Requests(tk, what) == [tk EXCEPT !.pc = what, !.requests = @ + 1]

\* getSpeciesById(id), up to its request()
GetSpeciesByIdStep(tk, st, id, t) ==
    LET cacheKey == createSpeciesKey(NumberToString(id))
        g == CacheGet(st.caches["species"], cacheKey, t, ttlMs("species"))
        st2 == [st EXCEPT !.caches["species"] = g.entries]
    IN  IF CacheHit(g, cacheKey)
        THEN [task |-> Returns(tk, g.value), stores |-> st2]
        ELSE [task |-> Requests([tk EXCEPT !.id = id], "species"), stores |-> st2]

\* getSpeciesBySlug(slug), up to its request()
GetSpeciesBySlugStep(tk, st, slug, t) ==
    LET cacheKey == createSpeciesKey(slug)
        g == CacheGet(st.caches["species"], cacheKey, t, ttlMs("species"))
        st2 == [st EXCEPT !.caches["species"] = g.entries]
    IN  IF CacheHit(g, cacheKey)
        THEN [task |-> Returns(tk, g.value), stores |-> st2]
        ELSE [task |-> Requests(tk, "species"), stores |-> st2]

\* findPlantByName(name), from the answer of searchPlants on
AfterSearch(tk, st, name, searchResults, t) ==
    IF Len(searchResults) = 0
    THEN [task |-> Returns([tk EXCEPT !.results = searchResults], NoProfile), stores |-> st]
    ELSE GetSpeciesByIdStep(
            [tk EXCEPT !.results = searchResults, !.trace = Append(@, "getSpeciesById")],
            st, FindBestMatch(name, searchResults).id, t)

\* searchPlants(name, 5) within findPlantByName, up to its request()
SearchPlantsStep(tk, st, name, t) ==
    LET normalizedQuery == normalizeSearchKey(name)
        g == CacheGet(st.caches["searchResults"], normalizedQuery, t, ttlMs("searchResults"))
        st2 == [st EXCEPT !.caches["searchResults"] = g.entries]
    IN  IF SearchHit(g, normalizedQuery)
        THEN AfterSearch(tk, st2, name, g.value, t)
        ELSE [task |-> Requests(tk, "search"), stores |-> st2]

\* variant: the common-name cache is consulted before the registry
FindPlantByNameStep_CacheFirst(tk, st, name, t) ==
    LET key == ToLowerCase(name)
        g == CacheGet(st.caches["commonName"], key, t, ttlMs("commonName"))
        st2 == [st EXCEPT !.caches["commonName"] = g.entries]
        existingPlant == FindPlant(st.registry, name)
    IN  IF CacheHit(g, key)
        THEN [task |-> Returns([tk EXCEPT !.trace = <<"commonName">>], g.value),
              stores |-> st2]
        ELSE IF existingPlant # NoProfile
        THEN [task |-> Returns([tk EXCEPT !.trace = <<"commonName", "registry">>], existingPlant),
              stores |-> st2]
        ELSE SearchPlantsStep([tk EXCEPT !.trace = <<"commonName", "registry", "search">>],
                              st2, name, t)

\* findPlantByName(name), up to its first request()
FindPlantByNameStep(tk, st, name, t) ==
    LET existingPlant == FindPlant(st.registry, name)
        key == ToLowerCase(name)
        g == CacheGet(st.caches["commonName"], key, t, ttlMs("commonName"))
        st2 == [st EXCEPT !.caches["commonName"] = g.entries]
    IN  IF existingPlant # NoProfile
        THEN [task |-> Returns([tk EXCEPT !.trace = <<"registry">>], existingPlant),
              stores |-> st]
        ELSE IF CacheHit(g, key)
        THEN [task |-> Returns([tk EXCEPT !.trace = <<"registry", "commonName">>], g.value),
              stores |-> st2]
        ELSE SearchPlantsStep([tk EXCEPT !.trace = <<"registry", "commonName", "search">>],
                              st2, name, t)

\* the names, ids and slugs the client is called with: a name that the first
\* and the third record carry and one that no record carries, the record with
\* a blank common name and the one without a common name
Names == { <<"b", "a">>, <<"b", "b", "b", "b">> }

Ids == {Species[4].id}

Slugs == {Species[2].slug}

\* what the remote source answers a search with
SearchAnswers ==
    { <<>>,
      <<Species[1]>>,
      <<Species[4], Species[2], Species[1], Species[3], Species[2], Species[1]>> }

\* the instants at which the client is called and answered
ResolveInstants == {0} \cup {CACHE_TTL_MS + i : i \in 0..MaxLate}

NoPrior == [known |-> FALSE, at |-> 0, value |-> NoProfile]

\* no entry of a cache is older than its time to live
Fresh == \A c \in CacheNames : \A i \in 1..Len(caches[c]) : ~Expired(caches[c][i], now, ttlMs(c))

NoTask ==
    [op |-> "none", name |-> <<>>, id |-> 0, slug |-> NoString, pc |-> "idle",
     requests |-> 0, trace |-> <<>>, results |-> <<>>, outcome |-> "none",
     value |-> NoProfile, at |-> 0, fresh |-> TRUE, prior |-> NoPrior,
     before |-> EmptyStores, limit |-> 0]

NewTask(op, name, id, slug) ==
    [NoTask EXCEPT !.op = op, !.name = name, !.id = id, !.slug = slug,
                   !.at = now, !.fresh = Fresh,
                   !.prior = IF op = "findPlantByName" THEN resolved[name] ELSE NoPrior,
                   !.before = Stores]

\* the call moves on to r.task and leaves the caches and the registry as r.stores
Commit(r) ==
    /\ task' = r.task
    /\ caches' = r.stores.caches
    /\ plants' = r.stores.registry.plants
    /\ mentionOrder' = r.stores.registry.mentionOrder
    /\ held' = r.stores.registry.held
    /\ resolved' =
          [n \in Names |->
              IF r.task.pc = "done" /\ r.task.op = "findPlantByName"
                 /\ r.task.outcome = "returned" /\ r.task.name = n
              THEN [known |-> TRUE, at |-> now, value |-> r.task.value]
              ELSE NoPrior]
    /\ UNCHANGED <<now, clientVars, cut, lastSet, got, sweep, lastAdd, recent, adds, matchVars, workVars>>

CanCall ==
    /\ task.pc \in {"idle", "done"}
    /\ resolveCalls < MaxCalls
    /\ resolveCalls' = resolveCalls + 1

FindPlantByNameAct(name) ==
    /\ CanCall
    /\ Commit(FindPlantByNameStep(NewTask("findPlantByName", name, 0, NoString), Stores, name, now))

GetSpeciesByIdAct(id) ==
    /\ CanCall
    /\ Commit(GetSpeciesByIdStep(NewTask("getSpeciesById", <<>>, id, NoString), Stores, id, now))

GetSpeciesBySlugAct(slug) ==
    /\ CanCall
    /\ Commit(GetSpeciesBySlugStep(NewTask("getSpeciesBySlug", <<>>, 0, slug), Stores, slug, now))

\* request("/species/search") returns response: the rest of searchPlants and
\* findPlantByName up to the next request()
SearchResponds(data) ==
    /\ task.pc = "search"
    /\ LET results == SliceTo(data, 5)
           normalizedQuery == normalizeSearchKey(task.name)
           st == [Stores EXCEPT !.caches["searchResults"] =
                     CacheSet(@, normalizedQuery, results, now, searchResultsMaxSize)]
       IN  Commit(AfterSearch(task, st, task.name, results, now))
    /\ UNCHANGED resolveCalls

\* the record of the remote source that "/species/" + id or slug names
Requested(raw) ==
    IF task.op = "getSpeciesBySlug" THEN raw.slug = task.slug ELSE raw.id = task.id

\* request("/species/...") returns response: the rest of getSpeciesById or
\* getSpeciesBySlug
SpeciesResponds ==
    /\ task.pc = "species"
    /\ \E i \in 1..Len(Species) :
          /\ Requested(Species[i])
          /\ LET processed == ProcessSpeciesData(Species[i])
                 bySlug == task.op = "getSpeciesBySlug"
                 cacheKey == IF bySlug THEN createSpeciesKey(task.slug)
                             ELSE createSpeciesKey(NumberToString(task.id))
                 otherKey == IF bySlug THEN createSpeciesKey(NumberToString(processed.id))
                             ELSE createSpeciesKey(processed.slug)
             IN  Commit([task |-> Returns(task, processed),
                         stores |-> StoreSpecies(Stores, cacheKey, otherKey, processed, now)])
    /\ UNCHANGED resolveCalls

\* variant: a call that fails empties the cache it had consulted
Thrown_Invalidates(tk, st) ==
    [task |-> [tk EXCEPT !.pc = "done", !.outcome = "threw"],
     stores |-> [st EXCEPT !.caches[IF tk.pc = "search" THEN "searchResults" ELSE "species"] = <<>>]]

\* the error of request() leaves searchPlants, getSpeciesById or
\* getSpeciesBySlug at the await: no statement after it runs
Thrown(tk, st) ==
    [task |-> [tk EXCEPT !.pc = "done", !.outcome = "threw"], stores |-> st]

\* request() throws
RequestThrows ==
    /\ task.pc \in {"search", "species"}
    /\ Commit(Thrown(task, Stores))
    /\ UNCHANGED resolveCalls

\* the queries and limits searchPlants is called with; the queries have the
\* same normalized form, and 10 is the default limit
SearchQueries == { <<"b", "a">>, <<" ", "B", "a">> }

Limits == {1, 5, 10}

\* searchPlants(query, limit) called by itself, up to its request()
SearchPlantsAct(query, limit) ==
    /\ CanCall
    /\ LET tk == [NewTask("searchPlants", query, 0, NoString) EXCEPT !.limit = limit]
           normalizedQuery == normalizeSearchKey(query)
           g == CacheGet(caches["searchResults"], normalizedQuery, now, ttlMs("searchResults"))
           st == [Stores EXCEPT !.caches["searchResults"] = g.entries]
       IN  IF SearchHit(g, normalizedQuery)
           THEN Commit([task |-> [Returns(tk, NoProfile) EXCEPT !.results = g.value], stores |-> st])
           ELSE Commit([task |-> Requests(tk, "search"), stores |-> st])

\* request("/species/search") returns response: the rest of searchPlants
SearchPlantsResponds(data) ==
    /\ task.pc = "search"
    /\ task.op = "searchPlants"
    /\ LET results == SliceTo(data, task.limit)
           normalizedQuery == normalizeSearchKey(task.name)
           st == [Stores EXCEPT !.caches["searchResults"] =
                     CacheSet(@, normalizedQuery, results, now, searchResultsMaxSize)]
       IN  Commit([task |-> [Returns(task, NoProfile) EXCEPT !.results = results], stores |-> st])
    /\ UNCHANGED resolveCalls

\* conversationRegistry.clear(), between two calls
ClearConversation ==
    /\ task.pc = "done"
    /\ plants' = <<>>
    /\ mentionOrder' = <<>>
    /\ held' = <<>>
    /\ task' = NoTask
    /\ resolved' = [n \in Names |-> NoPrior]
    /\ UNCHANGED <<now, clientVars, cacheVars, lastAdd, recent, adds, matchVars, resolveCalls, workVars>>

ResolveTick(t) ==
    /\ t > now
    /\ now' = t
    /\ UNCHANGED <<clientVars, cacheVars, registryVars, matchVars, resolveVars, workVars>>

\* no call of the client in progress, none made yet
NoResolution ==
    /\ task = NoTask
    /\ resolved = [n \in Names |-> NoPrior]
    /\ resolveCalls = 0

\* ------------------------------------------------------------ concurrent getSpeciesById
\* the concurrent callers of getSpeciesById and the ids they ask for
Racers == {1, 2}

RaceIds == {Species[1].id, Species[4].id}

NoFlights == [p \in Racers |-> NoTask]

\* the caches and the registry become st
CommitStores(st) ==
    /\ caches' = st.caches
    /\ plants' = st.registry.plants
    /\ mentionOrder' = st.registry.mentionOrder
    /\ held' = st.registry.held

\* what a step of a concurrent caller leaves alone
outsideRace ==
    <<clientVars, cut, lastSet, got, sweep, lastAdd, recent, adds, matchVars, resolveVars,
      batch, rooms, extraction, bootVars>>

\* getSpeciesById(id) called by p, up to its request(); the call is marked
\* when the call of the other caller is waiting for its response
RaceCall(p, id) ==
    /\ flights[p].pc = "idle"
    /\ LET tk == [NoTask EXCEPT !.op = "getSpeciesById", !.id = id, !.at = now,
                                !.trace = IF \E q \in Racers : flights[q].pc = "species"
                                          THEN <<"concurrent">> ELSE <<>>]
           r == GetSpeciesByIdStep(tk, Stores, id, now)
       IN  /\ flights' = [flights EXCEPT ![p] = r.task]
           /\ CommitStores(r.stores)
    /\ UNCHANGED <<now, outsideRace>>

\* the request() of p returns response: the rest of getSpeciesById
RaceResponds(p) ==
    /\ flights[p].pc = "species"
    /\ \E i \in 1..Len(Species) :
          /\ Species[i].id = flights[p].id
          /\ LET processed == ProcessSpeciesData(Species[i])
             IN  /\ flights' = [flights EXCEPT ![p] = Returns(@, processed)]
                 /\ CommitStores(StoreSpecies(Stores,
                        createSpeciesKey(NumberToString(flights[p].id)),
                        createSpeciesKey(processed.slug), processed, now))
    /\ UNCHANGED <<now, outsideRace>>

\* the request() of p throws
RaceThrows(p) ==
    /\ flights[p].pc = "species"
    /\ flights' = [flights EXCEPT ![p] = [@ EXCEPT !.pc = "done", !.outcome = "threw"]]
    /\ UNCHANGED <<now, cacheVars, registryVars, matchVars, resolveVars, clientVars,
                   batch, rooms, extraction, bootVars>>

RaceTick(t) ==
    /\ t > now
    /\ now' = t
    /\ UNCHANGED <<clientVars, cacheVars, registryVars, matchVars, resolveVars, workVars>>

\* ------------------------------------------------------------ the client singleton
\* clientInstance is null or the client made with a token; lastInit is the
\* latest call of initializeTrefleClient: its token, whether it threw, and
\* what clientInstance was before it.
NoInit == [token |-> NoString, threw |-> FALSE, previous |-> NoString]

\* let clientInstance: TrefleClient | null = null
Uninstalled == [clientInstance |-> NoString, lastInit |-> NoInit]

\* the module after initializeTrefleClient("t")
Installed == [clientInstance |-> <<"t">>, lastInit |-> NoInit]

\* isClientInitialized()
IsClientInitialized(tr) == tr.clientInstance # NoString

\* no call of getPlantContext or shouldTriggerPlantInfo has been made
NoContext ==
    [op |-> "none", pc |-> "idle", mentionsToFetch |-> <<>>, i |-> 1, plants |-> <<>>,
     fetched |-> 0, initialized |-> TRUE, rawPlants |-> <<>>, returned |-> FALSE]

\* new TrefleClient(token) throws for a token that is empty or blank
TokenRejected(token) == ~Truthy(token) \/ Trim(token) = <<>>

\* variant: the assignment to clientInstance comes before the test of the token
InitializeTrefleClient_AssignFirst(tr, token) ==
    IF TokenRejected(token)
    THEN [clientInstance |-> NoString,
          lastInit |-> [token |-> token, threw |-> TRUE, previous |-> tr.clientInstance]]
    ELSE [clientInstance |-> Trim(token),
          lastInit |-> [token |-> token, threw |-> FALSE, previous |-> tr.clientInstance]]

\* initializeTrefleClient(token): clientInstance = new TrefleClient(token)
InitializeTrefleClient(tr, token) ==
    IF TokenRejected(token)
    THEN [tr EXCEPT !.lastInit =
             [token |-> token, threw |-> TRUE, previous |-> tr.clientInstance]]
    ELSE [clientInstance |-> Trim(token),
          lastInit |-> [token |-> token, threw |-> FALSE, previous |-> tr.clientInstance]]

\* the tokens the module is given: none, blank, and two that are accepted
Tokens == {<<>>, <<" ">>, <<"t">>, <<" ", "u", " ">>}

\* ------------------------------------------------------------ AgentRuntimeManager
\* initializationPromise is 0 for null, or the number of the doInitialize()
\* call whose promise it holds; attempts[k] is the state of that promise; jobs
\* are the callers whose continuation after the promise is queued, in order.
Callers == {1, 2, 3}

NoCaller == [pc |-> "idle", awaits |-> 0, role |-> "none", outcome |-> "none"]

NoRuntime ==
    [isInitialized |-> FALSE, initializationPromise |-> 0, attempts |-> <<>>,
     waiting |-> <<>>, jobs |-> <<>>, handled |-> 0, trefleToken |-> NoString, calls |-> 0,
     callers |-> [c \in Callers |-> NoCaller]]

\* what initialize() leaves alone
outsideRuntime ==
    <<now, clientVars, cacheVars, registryVars, matchVars, resolveVars, flights, batch, rooms,
      extraction, context>>

\* doInitialize() up to its await: the client is installed if there is a token
DoInitialize(tr, trefleToken) ==
    IF Truthy(trefleToken) THEN InitializeTrefleClient(tr, trefleToken) ELSE tr

\* c awaits the promise of attempt k, as the caller that made it or as one
\* that was handed it; if the promise is settled its continuation is queued
Awaits(rt, c, k, role) ==
    [rt EXCEPT !.callers[c] = [pc |-> "awaiting", awaits |-> k, role |-> role, outcome |-> "none"],
               !.waiting = IF rt.attempts[k] = "pending" THEN Append(@, c) ELSE @,
               !.jobs = IF rt.attempts[k] = "pending" THEN @ ELSE Append(@, c),
               !.calls = @ + 1]

\* initialize(), from its call to its await or return
Initialize(rt, c) ==
    IF rt.isInitialized
    THEN [rt EXCEPT !.callers[c] = [pc |-> "done", awaits |-> 0, role |-> "none",
                                    outcome |-> "returned"],
                    !.calls = @ + 1]
    ELSE IF rt.initializationPromise # 0
    THEN Awaits(rt, c, rt.initializationPromise, "handed")
    ELSE Awaits([rt EXCEPT !.initializationPromise = Len(rt.attempts) + 1,
                           !.attempts = Append(@, "pending")],
                c, Len(rt.attempts) + 1, "maker")

\* variant: the catch clause keeps the rejected promise
CatchInitialize_KeepPromise(rt, k) == [rt EXCEPT !.handled = k]

\* catch (error) { this.initializationPromise = null; throw error; }
CatchInitialize(rt, k) == [rt EXCEPT !.initializationPromise = 0, !.handled = k]

\* the continuation of c after the promise it awaits has settled
Continue(rt, c, k) ==
    LET ok == rt.attempts[k] = "fulfilled"
        left == [rt EXCEPT !.jobs = Tail(@),
                           !.callers[c].pc = "done",
                           !.callers[c].outcome = IF ok THEN "returned" ELSE "threw"]
    IN  IF rt.callers[c].role # "maker" THEN left
        ELSE IF ok THEN [left EXCEPT !.isInitialized = TRUE]
        ELSE CatchInitialize(left, k)

\* initialize() is called by c
InitializeAct(c) ==
    /\ runtime.callers[c].pc \in {"idle", "done"}
    /\ runtime.calls < MaxInits
    /\ runtime' = Initialize(runtime, c)
    /\ trefle' = IF ~runtime.isInitialized /\ runtime.initializationPromise = 0
                 THEN DoInitialize(trefle, runtime.trefleToken) ELSE trefle
    /\ UNCHANGED outsideRuntime

\* the promise of doInitialize() settles: ensureAgentExists() returned or threw
Settles(how) ==
    /\ runtime.attempts # <<>>
    /\ runtime.attempts[Len(runtime.attempts)] = "pending"
    /\ runtime' = [runtime EXCEPT
          !.attempts[Len(runtime.attempts)] = how,
          !.jobs = @ \o runtime.waiting,
          !.waiting = <<>>]
    /\ UNCHANGED <<trefle, outsideRuntime>>

\* the first queued continuation runs
ContinueAct ==
    /\ runtime.jobs # <<>>
    /\ runtime' = Continue(runtime, Head(runtime.jobs), runtime.callers[Head(runtime.jobs)].awaits)
    /\ UNCHANGED <<trefle, outsideRuntime>>

\* ------------------------------------------------------------ getPlantInfo
\* getPlantInfo(messageText) after extractPlantMentions: its locals, where it
\* stands (idle, lookup: awaiting findPlantByName, search: awaiting
\* searchPlants, done) and, for each item processed, how it was answered and
\* where it was put.
NoBatch ==
    [pc |-> "idle", items |-> <<>>, i |-> 1, fetchedPlants |-> <<>>, notFoundPlants |-> <<>>,
     trail |-> <<>>, outcome |-> "none",
     result |-> [plants |-> <<>>, notFound |-> <<>>, triggered |-> FALSE]]

\* ------------------------------------------------------------ extractor
\* the classes of characters of the patterns
LowerCase == {LowerCaseLetters[i] : i \in 1..26}

UpperCase == {UpperCaseLetters[i] : i \in 1..26}

IsLower(c) == c \in LowerCase

IsUpper(c) == c \in UpperCase

IsLetter(c) == IsLower(c) \/ IsUpper(c)

\* \s: the space is the whitespace that occurs
IsSpace(c) == c = " "

\* the character at position i, none outside the string
CharAt(str, i) == IF i \in 1..Len(str) THEN str[i] ELSE ""

\* \b at position i: one of the characters before and at i is of \w, the other
\* is not
WordBoundary(str, i) == IsLetter(CharAt(str, i - 1)) # IsLetter(CharAt(str, i))

\* a literal of a pattern with the i flag at position i
LiteralAt(str, i, lit) ==
    /\ i >= 1
    /\ i + Len(lit) - 1 <= Len(str)
    /\ \A j \in 1..Len(lit) : LowerChar(str[i + j - 1]) = LowerChar(lit[j])

\* the position after the longest run of characters of a class from position i
RunEnd(str, i, InClass(_)) ==
    IF i > Len(str) THEN i
    ELSE CHOOSE j \in i..(Len(str) + 1) :
            /\ j = Len(str) + 1 \/ ~InClass(str[j])
            /\ \A k \in i..(j - 1) : InClass(str[k])

\* \s+ at position i, before a letter: the position after it, 0 if it does
\* not match
Spaces(str, i) == IF IsSpace(CharAt(str, i)) THEN RunEnd(str, i, IsSpace) ELSE 0

\* [a-z]+ at position i, before another character: the position after it, 0
\* if it does not match
LowerRun(str, i) == IF IsLower(CharAt(str, i)) THEN RunEnd(str, i, IsLower) ELSE 0

\* (?:\s|$|,|\.|\?|!) at position i: the position after it, 0 if it does not match
Terminator(str, i) ==
    IF i = Len(str) + 1 THEN i
    ELSE IF i \in 1..Len(str) /\ str[i] \in {" ", ",", ".", "?", "!"} THEN i + 1
    ELSE 0

\* one of the words (none is the beginning of another) at position i: the
\* position after it, 0 if it does not match
WordAt(str, i, words) ==
    IF i # 0 /\ \E w \in words : LiteralAt(str, i, w)
    THEN i + Len(CHOOSE w \in words : LiteralAt(str, i, w))
    ELSE 0

\* \s+ and one of the words; one of the words and \s+
SpacesThenWord(str, i, words) == WordAt(str, Spaces(str, i), words)

WordThenSpaces(str, i, words) == Spaces(str, WordAt(str, i, words))

\* the first alternative that matches
OrElse(first, second) == IF first # 0 THEN first ELSE second

\* an optional group of words, taken if the rest matches then, and the
\* terminator
OptionalWordThenTerminator(str, i, words) ==
    OrElse(Terminator(str, SpacesThenWord(str, i, words)), Terminator(str, i))

\* s?, taken if the rest matches then, and the terminator, after a word that
\* ends before position i
PluralThenTerminator(str, i) ==
    IF i = 0 THEN 0
    ELSE OrElse(IF LiteralAt(str, i, <<"s">>) THEN Terminator(str, i + 1) ELSE 0,
                Terminator(str, i))

\* the words of the groups of the patterns
Growths == {<<"p", "l", "a", "n", "t">>, <<"t", "r", "e", "e">>, <<"b", "u", "s", "h">>,
            <<"v", "i", "n", "e">>}

States == {<<"i", "s">>, <<"n", "e", "e", "d", "s">>, <<"h", "a", "s">>,
           <<"l", "o", "o", "k", "s">>}

Kinds == Growths \cup {<<"s", "h", "r", "u", "b">>, <<"f", "l", "o", "w", "e", "r">>,
                       <<"h", "e", "r", "b">>}

Verbs == {<<"g", "r", "o", "w">>, <<"p", "l", "a", "n", "t">>, <<"w", "a", "t", "e", "r">>,
          <<"f", "e", "r", "t", "i", "l", "i", "z", "e">>, <<"p", "r", "u", "n", "e">>,
          <<"h", "a", "r", "v", "e", "s", "t">>, <<"p", "r", "o", "p", "a", "g", "a", "t", "e">>}

\* the words of the group after the capture in PLANT_PATTERNS[k - 1]
FollowingWords(k) ==
    CASE k = 1 -> Growths
      [] k = 2 -> Growths \cup States
      [] k = 3 -> Kinds
      [] k = 5 -> Growths \ {<<"v", "i", "n", "e">>}

\* the words PLANT_PATTERNS[k - 1] begins with
LeadingWords(k) ==
    CASE k = 1 -> {<<"m", "y">>}
      [] k = 2 -> {<<"t", "h", "e">>}
      [] k = 5 -> {<<"a", "b", "o", "u", "t">>, <<"r", "e", "g", "a", "r", "d", "i", "n", "g">>}

\* the words of the optional group before the capture
Determiners(k) ==
    CASE k = 4 -> {<<"t", "h", "e">>, <<"m", "y">>, <<"s", "o", "m", "e">>}
      [] k = 5 -> {<<"t", "h", "e">>, <<"m", "y">>}
      [] OTHER -> {}

\* what follows the capture in PLANT_PATTERNS[k - 1], at position i: the
\* position after it, 0 if it does not match
Continuation(k, str, i) ==
    CASE k \in {1, 5} -> OptionalWordThenTerminator(str, i, FollowingWords(k))
      [] k = 2 -> SpacesThenWord(str, i, FollowingWords(k))
      [] k = 3 -> PluralThenTerminator(str, SpacesThenWord(str, i, FollowingWords(k)))
      [] k = 4 -> Terminator(str, i)

\* the result of a pattern at a position: the capture is str[from..to], the
\* match ends before position end; end is 0 when there is no match
NoMatch == [from |-> 0, to |-> 0, end |-> 0]

\* {2,25} and {2,20}
MaxCapture(k) == IF k = 3 THEN 20 ELSE 25

IsLetterOrSpace(c) == IsLetter(c) \/ IsSpace(c)

\* ([a-z][a-z\s]{2,25}?) at position s and what follows it: the capture
\* str[s..s + n] if the rest of the pattern matches after it, else a longer one
RECURSIVE LazyCapture(_, _, _, _)
Shortest(end, k, str, s, n) ==
    IF end # 0 THEN [from |-> s, to |-> s + n, end |-> end]
    ELSE LazyCapture(k, str, s, n + 1)

LazyCapture(k, str, s, n) ==
    IF n > MaxCapture(k) \/ ~IsLetterOrSpace(CharAt(str, s + n)) THEN NoMatch
    ELSE Shortest(Continuation(k, str, s + n + 1), k, str, s, n)

CaptureAt(k, str, s) ==
    IF IsLetter(CharAt(str, s)) /\ IsLetterOrSpace(CharAt(str, s + 1))
    THEN LazyCapture(k, str, s, 2)
    ELSE NoMatch

\* the capture at the first of the positions where the pattern matches
RECURSIVE FirstCapture(_, _, _)
Preferred(match, k, str, starts) ==
    IF match.end # 0 THEN match ELSE FirstCapture(k, str, starts)

FirstCapture(k, str, starts) ==
    IF starts = <<>> THEN NoMatch
    ELSE Preferred(CaptureAt(k, str, Head(starts)), k, str, Tail(starts))

\* (?:the\s+|my\s+|some\s+)? and the capture at position s: the group is
\* taken if the rest matches then
CaptureAfter(k, str, s) ==
    IF s = 0 THEN NoMatch
    ELSE FirstCapture(k, str, <<WordThenSpaces(str, s, Determiners(k)), s>>)

\* grow|plant|care\s+for|water|fertilize|prune|harvest|propagate at position i
VerbEnd(str, i) ==
    OrElse(WordAt(str, i, Verbs), WordAt(str, WordThenSpaces(str, i, {<<"c", "a", "r",
                                                                        "e">>}), {<<"f", "o",
                                                                          "r">>}))

\* the part of PLANT_PATTERNS[k - 1] before the optional group and the
\* capture, at position i
PrefixEnd(k, str, i) ==
    CASE k = 3 -> i
      [] k = 4 -> Spaces(str, VerbEnd(str, i))
      [] OTHER -> WordThenSpaces(str, i, LeadingWords(k))

\* [A-Z][a-z]+\s+[a-z]+ at position i
BinomialEnd(str, i) ==
    IF IsUpper(CharAt(str, i)) THEN LowerRun(str, Spaces(str, LowerRun(str, i + 1))) ELSE 0

\* ([A-Z][a-z]+\s+[a-z]+)(?:\s|$|,|\.|\?|!) at position i; it has no i flag
BinomialMatch(str, i, end) ==
    IF Terminator(str, end) # 0
    THEN [from |-> i, to |-> end - 1, end |-> Terminator(str, end)]
    ELSE NoMatch

NumPatterns == 6

\* PLANT_PATTERNS[k - 1] at position i
MatchAt(k, str, i) ==
    IF k = NumPatterns THEN BinomialMatch(str, i, BinomialEnd(str, i))
    ELSE CaptureAfter(k, str, PrefixEnd(k, str, i))

\* pattern.exec(text) with lastIndex = i - 1: the leftmost match
RECURSIVE Exec(_, _, _)
Leftmost(match, k, str, i) == IF match.end # 0 THEN match ELSE Exec(k, str, i + 1)

Exec(k, str, i) ==
    IF i > Len(str) THEN NoMatch ELSE Leftmost(MatchAt(k, str, i), k, str, i)

\* match[1]?.trim() of the matches of while ((match = pattern.exec(text)) !== null)
RECURSIVE Captures(_, _, _)
CapturesOf(match, k, str) ==
    IF match.end = 0 THEN <<>>
    ELSE <<Trim(SubSeq(str, match.from, match.to))>> \o Captures(k, str, match.end)

Captures(k, str, from) == CapturesOf(Exec(k, str, from), k, str)

\* the candidates of all patterns, in the order of the loops
RECURSIVE AllCandidates(_, _)
AllCandidates(k, str) ==
    IF k > NumPatterns THEN <<>> ELSE Captures(k, str, 1) \o AllCandidates(k + 1, str)

\* the names of COMMON_PLANT_NAMES that occur in the texts, in the order of the Set
COMMON_PLANT_NAMES == <<<<"b", "a", "s", "i", "l">>, <<"r", "o", "s", "e">>,
    <<"m", "o", "n", "s", "t", "e", "r", "a">>, <<"f", "e", "r", "n">>>>

\* the words of PLANT_CONTEXT_WORDS that occur in the texts
PLANT_CONTEXT_WORDS == {<<"p", "l", "a", "n", "t">>, <<"w", "a", "t", "e", "r">>,
                        <<"b", "u", "s", "h">>}

\* the words of COMMON_ENGLISH_WORDS that the patterns capture in the texts
COMMON_ENGLISH_WORDS == {<<"a", "b", "o", "u", "t">>, <<"a", "n", "d">>, <<"a", "r", "e">>,
                         <<"h", "o", "w">>,
    <<"i">>, <<"i", "s">>, <<"m", "e">>, <<"m", "y">>, <<"t", "e", "l", "l">>,
    <<"t", "h", "e">>, <<"t", "o", "d", "a", "y">>, <<"y", "o", "u">>}

IsPlantName(name) == \E i \in 1..Len(COMMON_PLANT_NAMES) : COMMON_PLANT_NAMES[i] = name

\* isCommonWord
IsCommonWord(word) == ToLowerCase(word) \in COMMON_ENGLISH_WORDS

\* /^[A-Z][a-z]+\s+[a-z]+$/.test(candidate)
IsBinomial(candidate) == BinomialEnd(candidate, 1) = Len(candidate) + 1

\* .{0,30}
ContextDistance == 30

\* contextPattern.test(fullText): a context word, \s+, at most 30 characters
\* and the candidate, or the candidate, \s+, at most 30 characters and a
\* context word
ContextPattern(candidate, fullText) ==
    LET near(first, second) ==
            \E a \in 1..Len(fullText) :
                /\ LiteralAt(fullText, a, first)
                /\ Spaces(fullText, a + Len(first)) # 0
                /\ \E s \in (a + Len(first) + 1)..Spaces(fullText, a + Len(first)) :
                   \E c \in s..(s + ContextDistance) : LiteralAt(fullText, c, second)
    IN  \E w \in PLANT_CONTEXT_WORDS : near(w, candidate) \/ near(candidate, w)

\* assessPlantNameConfidence
AssessPlantNameConfidence(candidate, fullText) ==
    LET normalized == ToLowerCase(candidate)
    IN  IF IsPlantName(normalized) THEN "high"
        ELSE IF IsBinomial(candidate) THEN "high"
        ELSE IF ContextPattern(candidate, fullText) THEN "medium"
        ELSE "low"

Mention(originalText, normalizedName, confidence, source) ==
    [originalText |-> originalText, normalizedName |-> normalizedName,
     confidence |-> confidence, source |-> source]

\* findPatternMatches for the candidates from the i-th on; assessed is what
\* assessPlantNameConfidence was called with and what it returned
RECURSIVE PatternLoop(_, _, _, _, _)
\* variant: a candidate is kept whatever its confidence
Assessed_KeepLow(done, candidate, normalized, confidence) ==
    [matches |-> Append(done.matches, Mention(candidate, normalized, confidence, "pattern")),
     assessed |->
        Append(done.assessed,
               [candidate |-> candidate, argument |-> normalized, confidence |-> confidence])]

\* the test of the confidence and the push of findPatternMatches
Assessed(done, candidate, normalized, confidence) ==
    [matches |->
        IF confidence # "low" \/ IsPlantName(normalized)
        THEN Append(done.matches, Mention(candidate, normalized, confidence, "pattern"))
        ELSE done.matches,
     assessed |->
        Append(done.assessed,
               [candidate |-> candidate, argument |-> normalized, confidence |-> confidence])]

PatternStep(candidates, i, processedCandidates, text, done, candidate, normalized) ==
    IF ~Truthy(candidate) \/ Len(candidate) < 3 \/ Len(candidate) > 30
    THEN PatternLoop(candidates, i + 1, processedCandidates, text, done)
    ELSE IF normalized \in processedCandidates
    THEN PatternLoop(candidates, i + 1, processedCandidates, text, done)
    ELSE IF IsCommonWord(normalized)
    THEN PatternLoop(candidates, i + 1, processedCandidates \cup {normalized}, text, done)
    ELSE PatternLoop(candidates, i + 1, processedCandidates \cup {normalized}, text,
            Assessed(done, candidate, normalized,
                     AssessPlantNameConfidence(normalized, text)))

PatternLoop(candidates, i, processedCandidates, text, done) ==
    IF i > Len(candidates) THEN done
    ELSE PatternStep(candidates, i, processedCandidates, text, done, candidates[i],
                     ToLowerCase(candidates[i]))

\* findPatternMatches
FindPatternMatches(text) ==
    PatternLoop(AllCandidates(1, text), 1, {}, text, [matches |-> <<>>, assessed |-> <<>>])

\* [...COMMON_PLANT_NAMES].sort((a, b) => b.length - a.length): the sort is stable
RECURSIVE ConcatByLength(_, _)
ConcatByLength(names, n) ==
    IF n = 0 THEN <<>>
    ELSE SelectSeq(names, LAMBDA name : Len(name) = n) \o ConcatByLength(names, n - 1)

SortByLength(names) ==
    LET lengths == {Len(names[i]) : i \in 1..Len(names)}
    IN  IF names = <<>> THEN <<>>
        ELSE ConcatByLength(names, CHOOSE n \in lengths : \A l \in lengths : l <= n)

\* words.match(new RegExp(`\\b${escapeRegex(name)}\\b`, "i"))
WordMatch(words, name) ==
    \E i \in 1..Len(words) :
        /\ LiteralAt(words, i, name)
        /\ WordBoundary(words, i)
        /\ WordBoundary(words, i + Len(name))

\* findExactMatches
FindExactMatches(text) ==
    LET words == ToLowerCase(text)
        sortedNames == SortByLength(COMMON_PLANT_NAMES)
        found == SelectSeq(sortedNames, LAMBDA name : WordMatch(words, name))
    IN  [i \in 1..Len(found) |-> Mention(found[i], ToLowerCase(found[i]), "high", "common_name")]

\* the body of the loop of findRegistryMatches for a plant
RegistryMatchesOf(plant, normalizedText) ==
    LET genus == ToLowerCase(plant.genus)
    IN  (IF Truthy(plant.commonName) /\ Includes(normalizedText, ToLowerCase(plant.commonName))
         THEN <<Mention(plant.commonName, ToLowerCase(plant.commonName), "high", "exact_match")>>
         ELSE <<>>)
        \o (IF Includes(normalizedText, ToLowerCase(plant.scientificName))
            THEN <<Mention(plant.scientificName, ToLowerCase(plant.scientificName), "high",
                           "exact_match")>>
            ELSE <<>>)
        \o (IF Includes(normalizedText, genus) /\ Len(genus) > 3
            THEN <<Mention(plant.genus, genus, "medium", "exact_match")>>
            ELSE <<>>)

\* findRegistryMatches, for the entries of the Map of the registry from the i-th on
RECURSIVE RegistryLoop(_, _, _)
RegistryLoop(registeredPlants, i, normalizedText) ==
    IF i > Len(registeredPlants) THEN <<>>
    ELSE RegistryMatchesOf(registeredPlants[i].plant, normalizedText)
         \o RegistryLoop(registeredPlants, i + 1, normalizedText)

FindRegistryMatches(text, registeredPlants) ==
    RegistryLoop(registeredPlants, 1, ToLowerCase(text))

\* variant: a match is kept whether its name was found before or not
AddNew_KeepAll(mentions, matches) == mentions \o matches

\* for (const match of matches) if (!foundNames.has(match.normalizedName)) ...:
\* foundNames holds the names of the mentions
RECURSIVE AddNew(_, _)
AddNew(mentions, matches) ==
    IF matches = <<>> THEN mentions
    ELSE LET match == Head(matches)
             found == \E i \in 1..Len(mentions) :
                          mentions[i].normalizedName = match.normalizedName
         IN  AddNew(IF found THEN mentions ELSE Append(mentions, match), Tail(matches))

\* confidenceOrder
ConfidenceOrder(confidence) ==
    CASE confidence = "high" -> 0 [] confidence = "medium" -> 1 [] confidence = "low" -> 2

\* variant: the mentions are left in the order of their discovery
SortByConfidence_Unsorted(mentions) == mentions

\* mentions.sort(...) by confidenceOrder: the sort is stable
SortByConfidence(mentions) ==
    SelectSeq(mentions, LAMBDA m : ConfidenceOrder(m.confidence) = 0)
    \o SelectSeq(mentions, LAMBDA m : ConfidenceOrder(m.confidence) = 1)
    \o SelectSeq(mentions, LAMBDA m : ConfidenceOrder(m.confidence) = 2)

\* the mentions of extractPlantMentions before the sort
Discover(registryMatches, exactMatches, patternMatches) ==
    AddNew(AddNew(AddNew(<<>>, registryMatches), exactMatches), patternMatches)

\* extractPlantMentions
ExtractPlantMentions(text, registeredPlants) ==
    SortByConfidence(Discover(FindRegistryMatches(text, registeredPlants),
                              FindExactMatches(text), FindPatternMatches(text).matches))

\* variant: the inner loop does not test the limit
AddNewUpTo_Unlimited(allMentions, mentions, limit) == AddNew(allMentions, mentions)

\* the inner loop of extractPlantMentionsFromHistory
RECURSIVE AddNewUpTo(_, _, _)
AddNewUpTo(allMentions, mentions, limit) ==
    IF mentions = <<>> THEN allMentions
    ELSE LET mention == Head(mentions)
             found == \E i \in 1..Len(allMentions) :
                          allMentions[i].normalizedName = mention.normalizedName
         IN  AddNewUpTo(IF ~found /\ Len(allMentions) < limit
                        THEN Append(allMentions, mention) ELSE allMentions,
                        Tail(mentions), limit)

\* the outer loop of extractPlantMentionsFromHistory from message i down;
\* extracted lists the messages extractPlantMentions was called for, with the
\* number of mentions collected before the call
RECURSIVE HistoryLoop(_, _, _, _, _)
HistoryLoop(messages, i, limit, registeredPlants, done) ==
    IF ~(i >= 1 /\ Len(done.allMentions) < limit) THEN done
    ELSE IF ~Truthy(messages[i])
    THEN HistoryLoop(messages, i - 1, limit, registeredPlants, done)
    ELSE HistoryLoop(messages, i - 1, limit, registeredPlants,
            [allMentions |->
                AddNewUpTo(done.allMentions,
                           ExtractPlantMentions(messages[i], registeredPlants), limit),
             extracted |->
                Append(done.extracted, [message |-> i, collected |-> Len(done.allMentions)])])

\* extractPlantMentionsFromHistory
ExtractPlantMentionsFromHistory(messages, limit, registeredPlants) ==
    HistoryLoop(messages, Len(messages), limit, registeredPlants,
                [allMentions |-> <<>>, extracted |-> <<>>])

\* The profiles that get registered, with the genus the extractor reads.
Monstera ==
    [id |-> 11, slug |-> <<"m", "o", "n", "s", "t", "e", "r", "a", "-", "d", "e", "l", "i", "c",
                           "i", "o", "s", "a">>, scientificName |-> <<"M", "o", "n", "s", "t",
                             "e", "r", "a", " ", "d", "e", "l", "i", "c", "i", "o", "s", "a">>,
     commonName |-> <<"S", "w", "i", "s", "s", " ", "c", "h", "e", "e", "s", "e", " ", "p", "l",
                      "a", "n", "t">>, genus |-> <<"M", "o", "n", "s", "t", "e", "r", "a">>]

Basil ==
    [id |-> 12, slug |-> <<"o", "c", "i", "m", "u", "m", "-", "b", "a", "s", "i", "l", "i", "c",
                           "u", "m">>, scientificName |-> <<"O", "c", "i", "m", "u", "m", " ",
                             "b", "a", "s", "i", "l", "i", "c", "u", "m">>,
     commonName |-> <<"B", "a", "s", "i", "l">>, genus |-> <<"O", "c", "i", "m", "u", "m">>]

Registrable == {Monstera, Basil}

\* The texts of the messages.
Texts ==
    { <<>>,
      <<"m", "y", " ", "m", "o", "n", "s", "t", "e", "r", "a", " ", "i", "s", " ", "s", "i", "c",
        "k">>,
      <<"W", "a", "t", "e", "r", " ", "M", "o", "n", "s", "t", "e", "r", "a", " ", "d", "e", "l",
        "i", "c", "i", "o", "s", "a", ".">>,
      <<"M", "o", "n", "s", "t", "e", "r", "a", " ", "d", "e", "l", "i", "c", "i", "o", "s", "a">>,
      <<"m", "y", " ", "f", "e", "r", "n", ",", " ", "m", "y", " ", "b", "a", "s", "i", "l", " ",
        "a", "n", "d", " ", "m", "y", " ", "m", "o", "n", "s", "t", "e", "r", "a">>,
      <<"I", " ", "l", "i", "k", "e", " ", "m", "y", " ", "b", "a", "s", "i", "l", " ", "p", "l",
        "a", "n", "t", ",", " ", "t", "h", "a", "n", "k", "s">>,
      <<"h", "o", "w", " ", "a", "r", "e", " ", "y", "o", "u", " ", "t", "o", "d", "a", "y", "?">>,
      <<"t", "e", "l", "l", " ", "m", "e", " ", "a", "b", "o", "u", "t", " ", "t", "h", "e", " ",
        "r", "o", "s", "e", " ", "b", "u", "s", "h">>,
      <<"s", "e", "a", " ", " ", "f", "e", "r", "n", " ", "p", "l", "a", "n", "t">>,
      <<"m", "y", " ", "f", "e", "r", "n", ",", " ", "t", "h", "e", " ", "c", "a", "t", " ", "i",
        "s">> }

\* the largest number of messages of a history
MaxMessages == 2

\* the texts of the messages of a history
HistoryTexts ==
    { <<>>,
      <<"m", "y", " ", "m", "o", "n", "s", "t", "e", "r", "a", " ", "i", "s", " ", "s", "i", "c",
        "k">>,
        <<"m", "y", " ", "f", "e", "r", "n", ",", " ", "m", "y", " ", "b", "a", "s", "i", "l",
          " ", "a", "n", "d", " ", "m", "y", " ", "m", "o", "n", "s", "t", "e", "r", "a">>,
          <<"I", " ", "l", "i", "k", "e", " ", "m", "y", " ", "b", "a", "s", "i", "l", " ", "p",
            "l", "a", "n", "t", ",", " ", "t", "h", "a", "n", "k", "s">> }

Histories == UNION {[1..n -> HistoryTexts] : n \in 0..MaxMessages}

\* the limits extractPlantMentionsFromHistory is called with (5 by default)
HistoryLimits == {1, 2, 5}

NoExtraction == [op |-> "none"]

\* what the extractor leaves alone
outsideExtractor ==
    <<now, clientVars, cacheVars, matchVars, resolveVars, flights, batch, rooms, bootVars>>

CommitRegistry(r) ==
    /\ plants' = r.plants
    /\ mentionOrder' = r.mentionOrder
    /\ held' = r.held

\* conversationRegistry.addPlant(processed.slug, processed) and, if it has a
\* common name, addPlant(processed.commonName, processed)
RegisterProfile(r, processed) ==
    LET r1 == AddPlant(r, processed.slug, processed)
    IN  IF Truthy(processed.commonName) THEN AddPlant(r1, processed.commonName, processed)
        ELSE r1

\* a profile is registered as the client registers it
RegisterAct(plant) ==
    /\ extraction = NoExtraction
    /\ ~Has(plants, Trim(ToLowerCase(plant.slug)))
    /\ CommitRegistry(RegisterProfile(Registry, plant))
    /\ UNCHANGED <<lastAdd, recent, adds, extraction, outsideExtractor>>

\* what a call of extractPlantMentions found in its passes and returned
Extraction(text, registryMatches, exactMatches, patterns) ==
    [op |-> "extractPlantMentions",
     text |-> text,
     registryMatches |-> registryMatches,
     exactMatches |-> exactMatches,
     patternMatches |-> patterns.matches,
     assessed |-> patterns.assessed,
     discovered |-> Discover(registryMatches, exactMatches, patterns.matches),
     mentions |-> SortByConfidence(Discover(registryMatches, exactMatches, patterns.matches))]

\* extractPlantMentions(text)
ExtractPlantMentionsAct(text) ==
    /\ extraction = NoExtraction
    /\ extraction' = Extraction(text, FindRegistryMatches(text, plants),
                                FindExactMatches(text), FindPatternMatches(text))
    /\ UNCHANGED <<registryVars, outsideExtractor>>

\* what a call of extractPlantMentionsFromHistory did and returned
HistoryExtraction(messages, limit, done) ==
    [op |-> "extractPlantMentionsFromHistory",
     messages |-> messages,
     limit |-> limit,
     extracted |-> done.extracted,
     mentions |-> done.allMentions]

\* extractPlantMentionsFromHistory(messages, limit)
ExtractPlantMentionsFromHistoryAct(messages, limit) ==
    /\ extraction = NoExtraction
    /\ extraction' = HistoryExtraction(messages, limit,
                          ExtractPlantMentionsFromHistory(messages, limit, plants))
    /\ UNCHANGED <<registryVars, outsideExtractor>>


\* ------------------------------------------------------------ conversations
\* The runtime handles the messages of the conversations (rooms) of one
\* process with the one conversationRegistry of the module.
Rooms == {"A", "B"}

NoRooms ==
    [handled |-> "none",
     registered |-> [room \in Rooms |-> {}],
     returned |-> [by |-> "none", room |-> "none", plants |-> <<>>]]

\* the queries of findPlant and the texts of the registry pass of the extractor
RoomQueries == {<<"m", "o", "n", "s", "t", "e", "r", "a">>, <<"b", "a", "s", "i", "l">>}

RoomTexts == {<<"m", "y", " ", "m", "o", "n", "s", "t", "e", "r", "a", " ", "i", "s", " ", "s",
                "i", "c", "k">>,
                <<"I", " ", "l", "i", "k", "e", " ", "m", "y", " ", "b", "a", "s", "i", "l", " ",
                  "p", "l", "a", "n", "t", ",", " ", "t", "h", "a", "n", "k", "s">>}

\* what the handling of a message leaves alone
outsideRooms ==
    <<now, clientVars, cacheVars, matchVars, resolveVars, flights, batch, extraction, bootVars>>

\* handleMessage(roomId, entityId, content) begins
HandleMessage(room) ==
    /\ rooms' = [rooms EXCEPT !.handled = room]
    /\ UNCHANGED <<registryVars, outsideRooms>>

\* while a message of the room is handled, the client registers a profile
RegisterIn(plant) ==
    /\ rooms.handled \in Rooms
    /\ CommitRegistry(RegisterProfile(Registry, plant))
    /\ rooms' = [rooms EXCEPT !.registered[rooms.handled] = @ \cup {plant}]
    /\ UNCHANGED <<lastAdd, recent, adds, outsideRooms>>

\* what the registry returned while a message of the room was handled
Returned(by, plantsReturned) ==
    /\ rooms.handled \in Rooms
    /\ rooms' = [rooms EXCEPT !.returned = [by |-> by, room |-> rooms.handled,
                                            plants |-> plantsReturned]]
    /\ UNCHANGED <<registryVars, outsideRooms>>

\* conversationRegistry.findPlant(mention.normalizedName)
FindPlantIn(query) ==
    Returned("findPlant",
             IF FindPlant(Registry, query).id # NoProfile.id
             THEN <<FindPlant(Registry, query)>> ELSE <<>>)

MAX_PLANTS_PER_REQUEST == 3

\* conversationRegistry.getRecentPlants(MAX_PLANTS_PER_REQUEST)
GetRecentPlantsIn == Returned("getRecentPlants", GetRecentPlants(Registry, MAX_PLANTS_PER_REQUEST))

\* findRegistryMatches(text): the registered plants that it matches
RegistryPassIn(text) ==
    Returned("findRegistryMatches",
             LET matched == SelectSeq(plants, LAMBDA e :
                                RegistryMatchesOf(e.plant, ToLowerCase(text)) # <<>>)
             IN  [i \in 1..Len(matched) |-> matched[i].plant])

\* ----------------------------------------------- getPlantInfo, the batch
\* the mentions extractPlantMentions returned
MentionOf(originalText) ==
    Mention(originalText, ToLowerCase(originalText), "high", "common_name")

MentionLists ==
    { <<>>,
      <<MentionOf(<<"M", "o", "n", "s", "t", "e", "r", "a">>)>>,
      <<MentionOf(<<"M", "o", "n", "s", "t", "e", "r", "a">>), MentionOf(<<"b", "a", "s", "i", "l">>), MentionOf(<<"f", "e", "r", "n">>)>>,
      <<MentionOf(<<"f", "e", "r", "n">>), MentionOf(<<"M", "o", "n", "s", "t", "e", "r", "a">>), MentionOf(<<"b", "a", "s", "i", "l">>), MentionOf(<<"r", "o", "s", "e">>)>> }

\* fetchedPlants.push(plant); answer tells where the plant came from
Resolved(b, plant, answer) ==
    [b EXCEPT !.fetchedPlants = Append(@, plant),
              !.trail = Append(@, [answer |-> answer, disposed |-> "resolved"]),
              !.i = @ + 1]

\* notFoundPlants.push(mention.originalText)
NotFound(b, answer) ==
    [b EXCEPT !.notFoundPlants = Append(@, b.items[b.i].originalText),
              !.trail = Append(@, [answer |-> answer, disposed |-> "notFound"]),
              !.i = @ + 1]

\* return { text, plants, notFound, triggered: true }
Result(b, plantsReturned) ==
    [b EXCEPT !.pc = "done", !.outcome = "returned",
              !.result = [plants |-> plantsReturned, notFound |-> b.notFoundPlants,
                          triggered |-> TRUE]]

\* getPlantInfo after the loop, up to its searchPlants
Generate(b) ==
    IF b.fetchedPlants = <<>> /\ b.notFoundPlants # <<>> THEN [b EXCEPT !.pc = "search"]
    ELSE Result(b, b.fetchedPlants)

\* the loop of getPlantInfo from item i on, up to its next findPlantByName
RECURSIVE ProcessItems(_, _)
ProcessItem(b, r, item, existingPlant) ==
    IF "scientificName" \in DOMAIN item THEN ProcessItems(Resolved(b, item, "profile"), r)
    ELSE IF existingPlant.id # NoProfile.id
    THEN ProcessItems(Resolved(b, existingPlant, "registry"), r)
    ELSE [b EXCEPT !.pc = "lookup"]

ProcessItems(b, r) ==
    IF b.i > Len(b.items) THEN Generate(b)
    ELSE ProcessItem(b, r, b.items[b.i],
                     IF "scientificName" \in DOMAIN b.items[b.i] THEN NoProfile
                     ELSE FindPlant(r, b.items[b.i].normalizedName))

\* variant: the catch clause of the lookup throws the error again
CatchLookup_Rethrow(b, r) == [b EXCEPT !.pc = "done", !.outcome = "threw"]

\* catch (error) { notFoundPlants.push(mention.originalText) } and the rest
\* of the loop
CatchLookup(b, r) == ProcessItems(NotFound(b, "threw"), r)

\* what getPlantInfo leaves alone
outsideBatch ==
    <<now, clientVars, cacheVars, matchVars, resolveVars, flights, rooms, extraction, bootVars>>

\* getPlantInfo(messageText), from the mentions to its first await
GetPlantInfoAct(mentions) ==
    /\ batch.pc = "idle"
    /\ LET recentPlants == GetRecentPlants(Registry, MAX_PLANTS_PER_REQUEST)
           plantsToProcess == IF Len(mentions) = 0 THEN recentPlants ELSE mentions
       IN  batch' = IF ~IsClientInitialized(trefle)
                    THEN [NoBatch EXCEPT !.pc = "done", !.outcome = "returned"]
                    ELSE IF Len(mentions) = 0 /\ Len(recentPlants) = 0
                    THEN Result(NoBatch, <<>>)
                    ELSE ProcessItems([NoBatch EXCEPT !.items =
                                          SliceTo(plantsToProcess, MAX_PLANTS_PER_REQUEST)],
                                      Registry)
    /\ UNCHANGED <<registryVars, outsideBatch>>

\* findPlantByName returns a plant, which it has registered unless it took
\* it from the cache of common names
LookupReturns(plant, registers) ==
    /\ batch.pc = "lookup"
    /\ LET r == IF registers THEN RegisterProfile(Registry, plant) ELSE Registry
       IN  /\ CommitRegistry(r)
           /\ batch' = ProcessItems(Resolved([batch EXCEPT !.pc = "loop"], plant, "plant"), r)
    /\ UNCHANGED <<lastAdd, recent, adds, outsideBatch>>

\* findPlantByName returns null
LookupReturnsNull ==
    /\ batch.pc = "lookup"
    /\ batch' = ProcessItems(NotFound([batch EXCEPT !.pc = "loop"], "null"), Registry)
    /\ UNCHANGED <<registryVars, outsideBatch>>

\* findPlantByName throws
LookupThrows ==
    /\ batch.pc = "lookup"
    /\ batch' = CatchLookup([batch EXCEPT !.pc = "loop"], Registry)
    /\ UNCHANGED <<registryVars, outsideBatch>>

\* searchPlants(searchQuery, 5) returns or throws: both return statements
SearchSettles ==
    /\ batch.pc = "search"
    /\ batch' = Result(batch, <<>>)
    /\ UNCHANGED <<registryVars, outsideBatch>>

\* a profile is registered before getPlantInfo is called
RegisterBefore(plant) ==
    /\ batch.pc = "idle"
    /\ ~Has(plants, Trim(ToLowerCase(plant.slug)))
    /\ CommitRegistry(RegisterProfile(Registry, plant))
    /\ UNCHANGED <<lastAdd, recent, adds, batch, outsideBatch>>

\* ------------------------------------------------------------ getPlantContext
\* getPlantContext(currentMessageText, historyMessages): its locals, where it
\* stands (idle, fetch: awaiting fetchPlantSafely, done), the number of
\* fetchPlantSafely calls it made, what isClientInitialized() answered and the
\* rawPlants it returned; shouldTriggerPlantInfo leaves what it returned.
MAX_PLANTS_TO_FETCH == 5

\* the words of plantKeywords that occur in the texts
plantKeywords == {<<"p", "l", "a", "n", "t">>, <<"w", "a", "t", "e", "r">>}

\* the phrases of PLANT_INFO_TRIGGERS that occur in the texts
PLANT_INFO_TRIGGERS == {<<"t", "e", "l", "l", " ", "m", "e", " ", "a", "b", "o", "u", "t">>}

\* isPlantRelatedQuery(text)
isPlantRelatedQuery(text) ==
    \/ \E keyword \in plantKeywords : Includes(ToLowerCase(text), keyword)
    \/ \E n \in 1..Len(COMMON_PLANT_NAMES) : Includes(ToLowerCase(text), COMMON_PLANT_NAMES[n])

\* shouldTriggerPlantInfo(messageText)
ShouldTriggerPlantInfo(tr, messageText, r) ==
    IF ~IsClientInitialized(tr) THEN FALSE
    ELSE IF ~Truthy(messageText) THEN FALSE
    ELSE IF ~isPlantRelatedQuery(messageText) THEN FALSE
    ELSE LET hasInfoTrigger ==
                 \E trigger \in PLANT_INFO_TRIGGERS : Includes(ToLowerCase(messageText), trigger)
             hasPlantMention ==
                 Len(ExtractPlantMentions(messageText, r.plants)) > 0 \/ Len(r.plants) > 0
             hasContextPlants == Len(GetRecentPlants(r, 1)) > 0
         IN  hasPlantMention /\ (hasInfoTrigger \/ hasContextPlants)

\* extractMentionsFromHistory(messages), from message i on
RECURSIVE ExtractMentionsFromHistory(_, _, _, _)
ExtractMentionsFromHistory(messages, i, registeredPlants, allMentions) ==
    IF i > Len(messages) THEN allMentions
    ELSE ExtractMentionsFromHistory(messages, i + 1, registeredPlants,
             AddNew(allMentions, ExtractPlantMentions(messages[i], registeredPlants)))

\* where mentionMap holds a mention of the name, 0 if it holds none
MentionMapGet(mentionMap, normalizedName) ==
    IF \E k \in 1..Len(mentionMap) : mentionMap[k].normalizedName = normalizedName
    THEN CHOOSE k \in 1..Len(mentionMap) : mentionMap[k].normalizedName = normalizedName
    ELSE 0

\* mentionMap.set(mention.normalizedName, mention) if there is none or a
\* less confident one: a key that is held keeps its place
MentionMapSet(mentionMap, mention, existing) ==
    IF existing = 0 THEN Append(mentionMap, mention)
    ELSE IF ConfidenceOrder(mention.confidence) < ConfidenceOrder(mentionMap[existing].confidence)
    THEN [mentionMap EXCEPT ![existing] = mention]
    ELSE mentionMap

\* deduplicateMentions(mentions)
RECURSIVE DeduplicateMentions(_, _)
DeduplicateMentions(mentions, mentionMap) ==
    IF mentions = <<>> THEN mentionMap
    ELSE DeduplicateMentions(Tail(mentions),
             MentionMapSet(mentionMap, Head(mentions),
                           MentionMapGet(mentionMap, Head(mentions).normalizedName)))

\* createResultFromPlants(plants)
CreateResultFromPlants(ctx, plantsProvided) ==
    [ctx EXCEPT !.pc = "done", !.rawPlants = plantsProvided]

\* variant: the plants of the registry are appended whether included or not
IncludeExisting_All(plantsSoFar, existingPlants) ==
    SliceTo(plantsSoFar \o existingPlants, MAX_PLANTS_TO_FETCH)

\* for (const plant of existingPlants) if (!alreadyIncluded && plants.length < 5) ...
RECURSIVE IncludeExisting(_, _)
IncludeExisting(plantsSoFar, existingPlants) ==
    IF existingPlants = <<>> THEN plantsSoFar
    ELSE LET plant == Head(existingPlants)
             alreadyIncluded == \E k \in 1..Len(plantsSoFar) : plantsSoFar[k].id = plant.id
         IN  IncludeExisting(IF ~alreadyIncluded /\ Len(plantsSoFar) < MAX_PLANTS_TO_FETCH
                             THEN Append(plantsSoFar, plant) ELSE plantsSoFar,
                             Tail(existingPlants))

\* the loop of getPlantContext from mention i on, up to its next
\* fetchPlantSafely, and what follows the loop
RECURSIVE FetchMentions(_, _)
FetchMention(ctx, r, mention, existingPlant) ==
    IF existingPlant.id # NoProfile.id
    THEN FetchMentions([ctx EXCEPT !.plants = Append(@, existingPlant), !.i = @ + 1], r)
    ELSE IF mention.confidence # "low"
    THEN [ctx EXCEPT !.pc = "fetch", !.fetched = @ + 1]
    ELSE FetchMentions([ctx EXCEPT !.i = @ + 1], r)

FetchMentions(ctx, r) ==
    IF ctx.i > Len(ctx.mentionsToFetch)
    THEN CreateResultFromPlants(ctx,
             IncludeExisting(ctx.plants, GetRecentPlants(r, MAX_PLANTS_TO_FETCH)))
    ELSE FetchMention(ctx, r, ctx.mentionsToFetch[ctx.i],
                      FindPlant(r, ctx.mentionsToFetch[ctx.i].normalizedName))

\* getPlantContext once the mentions are known
WithMentions(ctx, r, allMentions) ==
    IF Len(allMentions) = 0
    THEN CreateResultFromPlants(ctx, GetRecentPlants(r, MAX_PLANTS_TO_FETCH))
    ELSE FetchMentions([ctx EXCEPT !.mentionsToFetch = SliceTo(allMentions, MAX_PLANTS_TO_FETCH)],
                       r)

\* getPlantContext up to its first await or its return
GetPlantContext(tr, currentMessageText, historyMessages, r) ==
    IF ~IsClientInitialized(tr)
    THEN [NoContext EXCEPT !.op = "getPlantContext", !.pc = "done", !.initialized = FALSE]
    ELSE WithMentions([NoContext EXCEPT !.op = "getPlantContext"], r,
             DeduplicateMentions(
                 ExtractPlantMentions(currentMessageText, r.plants)
                 \o ExtractMentionsFromHistory(historyMessages, 1, r.plants, <<>>),
                 <<>>))

\* what getPlantContext and shouldTriggerPlantInfo leave alone
outsideContext ==
    <<now, clientVars, cacheVars, matchVars, resolveVars, flights, batch, rooms, extraction,
      trefle, runtime>>

GetPlantContextAct(currentMessageText, historyMessages) ==
    /\ context.pc = "idle"
    /\ context' = GetPlantContext(trefle, currentMessageText, historyMessages, Registry)
    /\ UNCHANGED <<registryVars, outsideContext>>

\* fetchPlantSafely returns the plant findPlantByName returned, which the
\* client has registered unless it took it from the cache of common names
FetchReturns(plant, registers) ==
    /\ context.pc = "fetch"
    /\ LET r == IF registers THEN RegisterProfile(Registry, plant) ELSE Registry
       IN  /\ CommitRegistry(r)
           /\ context' = FetchMentions([context EXCEPT !.pc = "loop",
                                                       !.plants = Append(@, plant),
                                                       !.i = @ + 1], r)
    /\ UNCHANGED <<lastAdd, recent, adds, outsideContext>>

\* fetchPlantSafely returns null: findPlantByName returned null or threw
FetchReturnsNull ==
    /\ context.pc = "fetch"
    /\ context' = FetchMentions([context EXCEPT !.pc = "loop", !.i = @ + 1], Registry)
    /\ UNCHANGED <<registryVars, outsideContext>>

ShouldTriggerPlantInfoAct(messageText) ==
    /\ context.pc = "idle"
    /\ context' = [NoContext EXCEPT !.op = "shouldTriggerPlantInfo", !.pc = "done",
                                    !.initialized = IsClientInitialized(trefle),
                                    !.returned =
                                        ShouldTriggerPlantInfo(trefle, messageText, Registry)]
    /\ UNCHANGED <<registryVars, outsideContext>>

\* initializeTrefleClient(token) is called
InitializeTrefleClientAct(token) ==
    /\ trefle' = InitializeTrefleClient(trefle, token)
    /\ UNCHANGED <<registryVars, now, clientVars, cacheVars, matchVars, resolveVars, flights,
                   batch, rooms, extraction, context, runtime>>

\* the histories getPlantContext is given
ContextHistories ==
    { <<>>,
      <<<<"m", "y", " ", "m", "o", "n", "s", "t", "e", "r", "a", " ", "i", "s", " ", "s", "i",
          "c", "k">>>>,
      <<<<"I", " ", "l", "i", "k", "e", " ", "m", "y", " ", "b", "a", "s", "i", "l", " ", "p",
          "l", "a", "n", "t", ",", " ", "t", "h", "a", "n", "k", "s">>, <<"m", "y", " ", "f",
              "e", "r", "n", ",", " ", "m", "y", " ", "b", "a", "s", "i", "l", " ", "a", "n",
                  "d", " ", "m", "y", " ", "m", "o", "n", "s", "t", "e", "r", "a">>>> }

\* the messages the entry points are given where the client may be missing
GuardTexts ==
    { <<>>,
      <<"m", "y", " ", "m", "o", "n", "s", "t", "e", "r", "a", " ", "i", "s", " ", "s", "i",
        "c", "k">>,
      <<"t", "e", "l", "l", " ", "m", "e", " ", "a", "b", "o", "u", "t", " ", "t", "h", "e",
        " ", "r", "o", "s", "e", " ", "b", "u", "s", "h">> }

\* the mentions getPlantInfo is given where the client may be missing
GuardMentions == {<<>>, <<MentionOf(<<"M", "o", "n", "s", "t", "e", "r", "a">>)>>}

\* none of these callers is at work
NoWork ==
    /\ flights = NoFlights
    /\ batch = NoBatch
    /\ rooms = NoRooms
    /\ extraction = NoExtraction
    /\ trefle = Installed
    /\ context = NoContext
    /\ runtime = NoRuntime

\* no request() in progress
NoRequests ==
    /\ started = 0
    /\ failures = 0
    /\ pc = [p \in Procs |-> "idle"]
    /\ attempt = [p \in Procs |-> 0]
    /\ lastError = [p \in Procs |-> NoError]
    /\ wakeAt = [p \in Procs |-> 0]
    /\ result = [p \in Procs |-> [kind |-> "none", err |-> NoError, value |-> 0]]
    /\ calls = [p \in Procs |-> 0]
    /\ received = [p \in Procs |-> 0]
    /\ lastOutcome = [p \in Procs |-> NoOutcome]
    /\ priorTransient = [p \in Procs |-> TRUE]
    /\ timeline = [p \in Procs |-> NoTimeline]

\* the caches of a freshly loaded module
CachesEmpty ==
    /\ caches = [c \in CacheNames |-> <<>>]
    /\ cut = "searchResults"
    /\ lastSet = [k \in TestKeys |-> NoSet]
    /\ got = NoGet
    /\ sweep = NoSweep

Init ==
    /\ now = StartTime
    /\ \E l \in InitLoads :
          /\ requestTimes = LoadTimes(l)
          /\ outbound = LoadTimes(l)
    /\ NoRequests
    /\ CachesEmpty
    /\ RegistryEmpty
    /\ NoMatching
    /\ NoResolution
    /\ NoWork

ClientStep ==
    \/ \E p \in Procs : Start(p)
    \/ \E p \in Procs, o \in Outcomes : Respond(p, o)
    \/ \E p \in Procs : Wake(p)
    \/ \E d \in ClientTicks : Tick(d)

Next == ClientStep /\ UNCHANGED outsideClient

Spec == Init /\ [][Next]_vars

\* One cache instance, empty or filled to its capacity, and no request in
\* progress.
CacheInit ==
    /\ now = CacheStart
    /\ requestTimes = <<>>
    /\ outbound = <<>>
    /\ NoRequests
    /\ cut \in CacheNames
    /\ \E n \in {0, MaxSize(cut)} :
          caches = [c \in CacheNames |-> IF c = cut THEN Prefill(n) ELSE <<>>]
    /\ lastSet = [k \in TestKeys |->
            IF k \in Keys(caches[cut])
            THEN [at |-> Lookup(caches[cut], k).timestamp, data |-> Lookup(caches[cut], k).data, hit |-> FALSE]
            ELSE NoSet]
    /\ got = NoGet
    /\ sweep = NoSweep
    /\ RegistryEmpty
    /\ NoMatching
    /\ NoResolution
    /\ NoWork

CacheNext ==
    \/ \E k \in TestKeys, v \in Values : SetAct(k, v)
    \/ \E k \in TestKeys : GetAct(k)
    \/ \E k \in TestKeys : DeleteAct(k)
    \/ CleanupAct
    \/ ClearAct
    \/ \E t \in CacheInstants : CacheTick(t)

CacheSpec == CacheInit /\ [][CacheNext]_vars

\* The registry after earlier addPlant() calls, no request in progress and the
\* caches empty.
RegistryInit ==
    /\ now = 0
    /\ requestTimes = <<>>
    /\ outbound = <<>>
    /\ NoRequests
    /\ CachesEmpty
    /\ \E added \in RegistryLoads :
          LET r == Filled(added)
          IN  /\ plants = r.plants
              /\ mentionOrder = r.mentionOrder
              /\ held = r.held
    /\ lastAdd = NoAdd
    /\ recent = NoRecent
    /\ adds = 0
    /\ NoMatching
    /\ NoResolution
    /\ NoWork

RegistryNext ==
    \/ \E call \in RegistryCalls : AddPlantAct(call[1], call[2])
    \/ \E count \in Counts : GetRecentAct(count)
    \/ ClearRegistryAct

RegistrySpec == RegistryInit /\ [][RegistryNext]_vars

\* findBestMatch() called with a name and a search result that is not empty
MatchInit ==
    /\ now = 0
    /\ requestTimes = <<>>
    /\ outbound = <<>>
    /\ NoRequests
    /\ CachesEmpty
    /\ RegistryEmpty
    /\ matchQuery \in Queries
    /\ matchResults \in ResultLists
    /\ bestMatch = NoSpecies
    /\ NoResolution
    /\ NoWork

MatchNext == FindBestMatchAct

MatchSpec == MatchInit /\ [][MatchNext]_vars

\* The client called for names, ids and slugs, one call after the other, from
\* a freshly loaded module on.
ResolveInit ==
    /\ now = 0
    /\ requestTimes = <<>>
    /\ outbound = <<>>
    /\ NoRequests
    /\ CachesEmpty
    /\ RegistryEmpty
    /\ NoMatching
    /\ NoResolution
    /\ NoWork

ResolveNext ==
    \/ \E name \in Names : FindPlantByNameAct(name)
    \/ \E id \in Ids : GetSpeciesByIdAct(id)
    \/ \E slug \in Slugs : GetSpeciesBySlugAct(slug)
    \/ \E data \in SearchAnswers : SearchResponds(data)
    \/ SpeciesResponds
    \/ RequestThrows
    \/ ClearConversation
    \/ \E t \in ResolveInstants : ResolveTick(t)

ResolveSpec == ResolveInit /\ [][ResolveNext]_vars

\* Two callers of getSpeciesById whose calls may overlap, with the registry
\* empty or at its capacity.
RaceInit ==
    /\ now = 0
    /\ requestTimes = <<>>
    /\ outbound = <<>>
    /\ NoRequests
    /\ CachesEmpty
    /\ \E added \in RegistryLoads :
          LET r == Filled(added)
          IN  /\ plants = r.plants
              /\ mentionOrder = r.mentionOrder
              /\ held = r.held
    /\ lastAdd = NoAdd
    /\ recent = NoRecent
    /\ adds = 0
    /\ NoMatching
    /\ NoResolution
    /\ NoWork

RaceNext ==
    \/ \E p \in Racers, id \in RaceIds : RaceCall(p, id)
    \/ \E p \in Racers : RaceResponds(p)
    \/ \E p \in Racers : RaceThrows(p)
    \/ \E t \in ResolveInstants : RaceTick(t)

RaceSpec == RaceInit /\ [][RaceNext]_vars

\* The extractor called once, after some profiles were registered.
ExtractInit ==
    /\ now = 0
    /\ requestTimes = <<>>
    /\ outbound = <<>>
    /\ NoRequests
    /\ CachesEmpty
    /\ plants = <<>>
    /\ mentionOrder = <<>>
    /\ held = <<>>
    /\ lastAdd = NoAdd
    /\ recent = NoRecent
    /\ adds = 0
    /\ NoMatching
    /\ NoResolution
    /\ NoWork

ExtractNext ==
    \/ \E plant \in Registrable : RegisterAct(plant)
    \/ \E text \in Texts : ExtractPlantMentionsAct(text)
    \/ \E messages \in Histories, limit \in HistoryLimits :
          ExtractPlantMentionsFromHistoryAct(messages, limit)

ExtractSpec == ExtractInit /\ [][ExtractNext]_vars

\* Messages of two conversations handled by one process.
RoomInit == ExtractInit

RoomNext ==
    \/ \E room \in Rooms : HandleMessage(room)
    \/ \E plant \in Registrable : RegisterIn(plant)
    \/ \E query \in RoomQueries : FindPlantIn(query)
    \/ GetRecentPlantsIn
    \/ \E text \in RoomTexts : RegistryPassIn(text)

RoomSpec == RoomInit /\ [][RoomNext]_vars

\* getPlantInfo called once on a registry that holds none, one or both of
\* the profiles, every lookup of the client answering in each of its ways
BatchInit == ExtractInit

BatchNext ==
    \/ \E plant \in Registrable : RegisterBefore(plant)
    \/ \E mentions \in MentionLists : GetPlantInfoAct(mentions)
    \/ \E plant \in Registrable, registers \in BOOLEAN : LookupReturns(plant, registers)
    \/ LookupReturnsNull
    \/ LookupThrows
    \/ SearchSettles

BatchSpec == BatchInit /\ [][BatchNext]_vars

\* searchPlants called with several limits, one call after the other, from a
\* freshly loaded module on.
SearchNext ==
    \/ \E query \in SearchQueries, limit \in Limits : SearchPlantsAct(query, limit)
    \/ \E data \in SearchAnswers : SearchPlantsResponds(data)
    \/ RequestThrows
    \/ \E t \in ResolveInstants : ResolveTick(t)

SearchSpec == ResolveInit /\ [][SearchNext]_vars

\* searchPlants, getSpeciesById and getSpeciesBySlug called by themselves, one
\* call after the other, each request() returning or throwing.
FailureNext ==
    \/ \E query \in SearchQueries, limit \in Limits : SearchPlantsAct(query, limit)
    \/ \E id \in Ids : GetSpeciesByIdAct(id)
    \/ \E slug \in Slugs : GetSpeciesBySlugAct(slug)
    \/ \E data \in SearchAnswers : SearchPlantsResponds(data)
    \/ SpeciesResponds
    \/ RequestThrows
    \/ \E t \in ResolveInstants : ResolveTick(t)

FailureSpec == ResolveInit /\ [][FailureNext]_vars

\* initialize() called by three callers in any interleaving, from a freshly
\* loaded module on, the runtime having any of the tokens or none.
RuntimeInit ==
    /\ now = 0
    /\ requestTimes = <<>>
    /\ outbound = <<>>
    /\ NoRequests
    /\ CachesEmpty
    /\ RegistryEmpty
    /\ NoMatching
    /\ NoResolution
    /\ flights = NoFlights
    /\ batch = NoBatch
    /\ rooms = NoRooms
    /\ extraction = NoExtraction
    /\ trefle = Uninstalled
    /\ context = NoContext
    /\ \E token \in Tokens \cup {NoString} : runtime = [NoRuntime EXCEPT !.trefleToken = token]

RuntimeNext ==
    \/ \E c \in Callers : InitializeAct(c)
    \/ \E how \in {"fulfilled", "rejected"} : Settles(how)
    \/ ContinueAct

RuntimeSpec == RuntimeInit /\ [][RuntimeNext]_vars

\* getPlantContext called once with a message and a history, on a registry
\* that holds none, one or both of the profiles, each fetch answering in each
\* of its ways.
ContextInit == ExtractInit

ContextNext ==
    \/ \E plant \in Registrable : RegisterAct(plant)
    \/ \E text \in Texts, history \in ContextHistories : GetPlantContextAct(text, history)
    \/ \E plant \in Registrable, registers \in BOOLEAN : FetchReturns(plant, registers)
    \/ FetchReturnsNull

ContextSpec == ContextInit /\ [][ContextNext]_vars

\* The three entry points called from a freshly loaded module on, before and
\* after initializeTrefleClient is called with each of the tokens.
GuardInit ==
    /\ now = 0
    /\ requestTimes = <<>>
    /\ outbound = <<>>
    /\ NoRequests
    /\ CachesEmpty
    /\ RegistryEmpty
    /\ NoMatching
    /\ NoResolution
    /\ flights = NoFlights
    /\ batch = NoBatch
    /\ rooms = NoRooms
    /\ extraction = NoExtraction
    /\ trefle = Uninstalled
    /\ context = NoContext
    /\ runtime = NoRuntime

GuardNext ==
    \/ \E token \in Tokens : InitializeTrefleClientAct(token)
    \/ \E plant \in Registrable : RegisterAct(plant)
    \/ \E text \in GuardTexts : GetPlantContextAct(text, <<>>)
    \/ \E plant \in Registrable, registers \in BOOLEAN : FetchReturns(plant, registers)
    \/ FetchReturnsNull
    \/ \E text \in GuardTexts : ShouldTriggerPlantInfoAct(text)
    \/ \E mentions \in GuardMentions : GetPlantInfoAct(mentions)
    \/ \E plant \in Registrable, registers \in BOOLEAN : LookupReturns(plant, registers)
    \/ LookupReturnsNull
    \/ LookupThrows
    \/ SearchSettles

GuardSpec == GuardInit /\ [][GuardNext]_vars

\* Every pending fetch() settles and every pending delay() expires.
Fairness ==
    \A p \in Procs :
        /\ WF_vars((\E o \in Outcomes : Respond(p, o)) /\ UNCHANGED outsideClient)
        /\ WF_vars(Wake(p) /\ UNCHANGED outsideClient)

FairSpec == Init /\ [][Next]_vars /\ Fairness

\* ======================================================================
\* Properties of the rate limiter and of request()
\* ======================================================================

\* fetch() calls issued in the 60 seconds ending at instant t
WindowCount(t) ==
    Cardinality({i \in 1..Len(outbound) : outbound[i] > t - windowMs /\ outbound[i] <= t})

\* calls held by the limiter that are younger than the window at instant t
LiveCount(t) ==
    Cardinality({i \in 1..Len(requestTimes) : t - requestTimes[i] < windowMs})

\* C1: no 60-second window holds more than 100 outbound attempts (first
\* attempts and retries of all callers together).  A window with the most
\* attempts can be taken to end at an attempt, so these windows suffice.
C1_WindowCeiling ==
    \A i \in 1..Len(outbound) : WindowCount(outbound[i]) <= maxRequests

\* C2: after k <= 2 transient failures request() is still retrying, and a 2xx
\* response that follows only transient failures makes it return that
\* response's payload after exactly k + 1 fetch() calls.
C2_RetryThenSuccess ==
    \A p \in Procs :
        (received[p] >= 1 /\ priorTransient[p]) =>
            /\ (Transient(lastOutcome[p]) /\ received[p] <= MAX_RETRIES) =>
                    /\ pc[p] \in {"delaying", "fetching"}
                    /\ calls[p] \in {received[p], received[p] + 1}
            /\ Success(lastOutcome[p]) =>
                    /\ pc[p] = "done"
                    /\ result[p] = [kind |-> "ok", err |-> NoError, value |-> lastOutcome[p].body]
                    /\ calls[p] = received[p]
                    /\ received[p] <= MAX_RETRIES + 1

C2_Witness ==
    \E p \in Procs :
        /\ pc[p] = "done" /\ received[p] = 3 /\ priorTransient[p]
        /\ Success(lastOutcome[p]) /\ calls[p] = 3 /\ result[p].kind = "ok"

ClassifiedName(status) ==
    CASE status = 401 -> "TrefleAuthError"
      [] status = 404 -> "TrefleNotFoundError"
      [] status = 429 -> "TrefleRateLimitError"

\* C3: a 401, 404 or 429 response on any attempt ends request() at once with
\* the error kind of that status; the three kinds differ and no fetch() call
\* follows (so a 404 on the first attempt means exactly one call).
C3_NonRetryable ==
    \A p \in Procs :
        (lastOutcome[p].kind = "http" /\ lastOutcome[p].status \in {401, 404, 429}) =>
            /\ pc[p] = "done"
            /\ result[p].kind = "error"
            /\ result[p].err.name = ClassifiedName(lastOutcome[p].status)
            /\ \A s \in {401, 404, 429} \ {lastOutcome[p].status} :
                   result[p].err.name # ClassifiedName(s)
            /\ calls[p] = received[p]

C3_Witness ==
    \E p \in Procs :
        /\ pc[p] = "done" /\ received[p] = 1 /\ calls[p] = 1
        /\ lastOutcome[p].status = 404
        /\ result[p].err.name = "TrefleNotFoundError"

\* a non-2xx status that is neither 5xx nor 401/404/429
Unclassified(o) ==
    /\ o.kind = "http"
    /\ ~Success(o)
    /\ ~(o.status >= 500)
    /\ o.status \notin {401, 404, 429}

\* C4: an unclassified status (400, 403, ...) on the first attempt is
\* surfaced after exactly one fetch() call and is never retried.
C4_UnclassifiedNotRetried ==
    \A p \in Procs :
        (received[p] = 1 /\ Unclassified(lastOutcome[p])) =>
            /\ pc[p] = "done"
            /\ result[p] = [kind |-> "error", err |-> ApiError(lastOutcome[p].status), value |-> 0]
            /\ calls[p] = 1

\* the error a transient outcome is reported as
TransientError(o) ==
    IF o.kind = "http" THEN ServerError(o.status) ELSE FetchError(o.kind)

InFlight(p) == pc[p] \in {"fetching", "delaying"}

C5_Safe ==
    \A p \in Procs :
        /\ calls[p] <= MAX_RETRIES + 1
        /\ (received[p] = MAX_RETRIES + 1 /\ priorTransient[p] /\ Transient(lastOutcome[p])) =>
               /\ pc[p] = "done"
               /\ result[p] = [kind |-> "error", err |-> TransientError(lastOutcome[p]), value |-> 0]

\* C5: a request() that passed the limiter check makes at most 3 fetch()
\* calls, throws the error of the last attempt when all 3 fail transiently,
\* and completes provided every fetch settles and every delay expires.
C5_BoundedRetry ==
    /\ []C5_Safe
    /\ \A p \in Procs : InFlight(p) ~> (pc[p] = "done")

C5_Witness ==
    \E p \in Procs :
        /\ pc[p] = "done" /\ received[p] = 3 /\ calls[p] = 3
        /\ priorTransient[p] /\ Transient(lastOutcome[p])
        /\ result[p].kind = "error"

C6_Rejected(p) == pc[p] = "done" /\ result[p].err = CapacityError

\* C6: a request() started while the limiter holds 100 calls younger than the
\* window fails at once with the capacity error, issues no fetch(), adds no
\* timestamp to the limiter, and is never retried.
C6_CapacityError ==
    /\ [](\A p \in Procs : C6_Rejected(p) => calls[p] = 0 /\ received[p] = 0)
    /\ [][(started' = started + 1 /\ LiveCount(now) >= maxRequests) =>
            /\ outbound' = outbound
            /\ Len(requestTimes') <= Len(requestTimes)
            /\ \A i \in 1..Len(requestTimes') : now - requestTimes'[i] < windowMs
            /\ \E p \in Procs : Idle(p) /\ C6_Rejected(p)' /\ calls'[p] = 0]_vars

C6_Witness ==
    \E p \in Procs : C6_Rejected(p) /\ calls[p] = 0 /\ LiveCount(now) = maxRequests

\* C7: with 100 calls recorded inside the window canMakeRequest() is false;
\* when the oldest of 100 recorded calls, and only it, is 60 seconds old or
\* older, canMakeRequest() is true and exactly one more call fits.
C7_WindowSlides ==
    /\ LiveCount(now) = maxRequests => ~CanMakeRequest(requestTimes, now).ok
    /\ ( /\ Len(requestTimes) = maxRequests
         /\ now - requestTimes[1] >= windowMs
         /\ \A i \in 2..Len(requestTimes) : now - requestTimes[i] < windowMs ) =>
            LET c == CanMakeRequest(requestTimes, now)
            IN  /\ c.ok
                /\ maxRequests - Len(c.times) = 1
                /\ ~CanMakeRequest(RecordRequest(c.times, now), now).ok

\* The slot freed when the oldest call left the window was taken by one caller and refused to the next.
C7_Witness ==
    \E p, q \in Procs :
        /\ p # q
        /\ now = windowMs
        /\ calls[p] = 1 /\ InFlight(p)
        /\ C6_Rejected(q)
        /\ Len(requestTimes) = maxRequests
        /\ requestTimes[Len(requestTimes)] = windowMs

\* C30: within one request() the first fetch() is called at the instant of
\* the call of request(); the fetch() of retry k, k = 1, 2, is called no sooner
\* than k * 1000 ms after the failure before it, the time its delay() was set
\* for; and after the failure of the last attempt request() throws at once,
\* with no delay() pending.
C30_BackOff ==
    \A p \in Procs :
        /\ (pc[p] = "fetching" /\ attempt[p] = 0) =>
              timeline[p].fetched = timeline[p].called
        /\ (pc[p] = "fetching" /\ attempt[p] >= 1) =>
              /\ attempt[p] <= 2
              /\ timeline[p].fetched - timeline[p].failed >= attempt[p] * 1000
        /\ pc[p] = "delaying" =>
              /\ attempt[p] \in {1, 2}
              /\ calls[p] = attempt[p]
              /\ wakeAt[p] = timeline[p].failed + attempt[p] * 1000
        /\ (pc[p] = "done" /\ result[p].kind = "error" /\ calls[p] >= 1) =>
              /\ timeline[p].left = timeline[p].failed
              /\ wakeAt[p] = 0

\* the second retry is in flight, 2000 ms after the failure of the first
C30_Witness ==
    \E p \in Procs :
        /\ pc[p] = "fetching"
        /\ attempt[p] = 2
        /\ timeline[p].fetched - timeline[p].failed = 2000
        /\ timeline[p].failed - timeline[p].called >= 1000

\* ======================================================================
\* Properties of TrefleCache
\* ======================================================================

\* the get() that was the latest operation asked for a key whose entry was
\* written by a set() and not removed since
GotWritten == got # NoGet /\ got.set.at >= 0

\* C8: whatever set, get, delete, cleanup and clear calls are made, no cache
\* instance holds more entries than its capacity (200, 300, 300); set() makes
\* room before it adds, so the sweep never takes the entry being written: a
\* key that was set and not removed by a later call is stored with its payload.
C8_Capacity ==
    /\ \A c \in CacheNames : Len(caches[c]) <= MaxSize(c)
    /\ \A k \in TestKeys :
          lastSet[k].at >= 0 =>
              /\ Has(caches[cut], k)
              /\ Lookup(caches[cut], k).data = lastSet[k].data

\* A set() of a new key on a cache at capacity: the sweep removed the oldest
\* tenth of the entries and the new entry was added afterwards.
C8_Witness ==
    /\ Len(caches[cut]) = MaxSize(cut) - EntriesToRemove(MaxSize(cut)) + 1
    /\ lastSet[NewKey].at = now
    /\ Has(caches[cut], NewKey)
    /\ ~Has(caches[cut], OldKey)

\* C9: a get(k) that follows set(k, v) by no more than the time-to-live
\* returns v, whatever the cache held before and whether or not the set()
\* ran the eviction sweep.
C9_RoundTrip ==
    (GotWritten /\ now - got.set.at <= ttlMs(cut)) => got.value = got.set.data

\* set(k, v) on a cache at capacity ran the sweep; get(k), exactly one
\* time-to-live later, returned v.
C9_Witness ==
    /\ got.key = NewKey
    /\ got.set.at = CacheStart
    /\ now - got.set.at = ttlMs(cut)
    /\ got.value = 2
    /\ Len(caches[cut]) = MaxSize(cut) - EntriesToRemove(MaxSize(cut)) + 1

\* C10: a get(k) made more than the time-to-live (5 minutes) after the latest
\* set(k, _) returns null and leaves no entry for k; the age is counted from
\* the set(), so get(k) hits in between do not extend it.
C10_Expiry ==
    (GotWritten /\ now - got.set.at > ttlMs(cut)) =>
        /\ got.value = Null
        /\ ~Has(caches[cut], got.key)

\* An entry that a get() had answered with was, more than the time-to-live
\* after its set(), reported absent and removed by the next get().
C10_Witness ==
    /\ GotWritten
    /\ got.set.hit
    /\ now - got.set.at > ttlMs(cut)
    /\ now - got.set.at <= ttlMs(cut) + MaxLate
    /\ got.value = Null
    /\ ~Has(caches[cut], got.key)

\* the keys that the sweep of the latest set() removed
SweptKeys == Keys(sweep.before) \ Keys(sweep.kept)

Timestamps(es) == {es[i].timestamp : i \in 1..Len(es)}

\* C11: a set() on a cache that holds capacity entries first removes exactly
\* max(1, floor(capacity * 0.1)) of them, none of the removed entries is
\* younger than an entry it keeps, and the entry is written afterwards.
C11_EvictOldest ==
    sweep.op = "set" =>
        LET swept == SweptKeys
            removed == SelectSeq(sweep.before, LAMBDA e : e.key \in swept)
        IN  /\ Len(sweep.before) = MaxSize(cut)
            /\ Len(removed) = Max(1, MaxSize(cut) \div 10)
            /\ sweep.kept = SelectSeq(sweep.before, LAMBDA e : e.key \notin swept)
            /\ \A r \in Timestamps(removed), e \in Timestamps(sweep.kept) : r <= e
            /\ \E k \in TestKeys :
                  /\ lastSet[k].at = now
                  /\ MapDelete(caches[cut], k) = MapDelete(sweep.kept, k)

\* A set() of one of the oldest keys of a full cache: its entry was swept and
\* written again, and some kept entry is as old as a removed one.
C11_Witness ==
    /\ sweep.op = "set"
    /\ OldKey \in SweptKeys
    /\ Has(caches[cut], OldKey)
    /\ LET swept == SweptKeys
       IN  Timestamps(SelectSeq(sweep.before, LAMBDA e : e.key \in swept))
              \cap Timestamps(sweep.kept) # {}

\* C12: cleanup() removes the entries older than the time-to-live and no
\* other, and returns the number of entries it removed.
C12_Cleanup ==
    sweep.op = "cleanup" =>
        /\ \A i \in 1..Len(sweep.before) :
              (now - sweep.before[i].timestamp > ttlMs(cut)) <=>
                  ~Has(caches[cut], sweep.before[i].key)
        /\ caches[cut] = SelectSeq(sweep.before, LAMBDA e : Has(caches[cut], e.key))
        /\ sweep.count = Len(sweep.before) - Len(caches[cut])

\* A cleanup() that removed some entries and kept others, one of them exactly
\* as old as the time-to-live.
C12_Witness ==
    /\ sweep.op = "cleanup"
    /\ sweep.count > 0
    /\ \E j \in 1..Len(caches[cut]) : now - caches[cut][j].timestamp = ttlMs(cut)

\* ======================================================================
\* Properties of ConversationPlantRegistry
\* ======================================================================

Elements(arr) == {arr[i] : i \in 1..Len(arr)}

\* C13: the registry never holds more than 20 keys, and an addPlant() of a
\* key it does not hold while it holds 20 evicts exactly one key, the one
\* inserted first among those held.
C13_RegistryBound ==
    /\ Len(plants) <= maxPlants
    /\ ( /\ lastAdd # NoAdd
         /\ Len(lastAdd.before) = maxPlants
         /\ lastAdd.key \notin Elements(lastAdd.before) ) =>
            Keys(plants) = Elements(Tail(lastAdd.before)) \cup {lastAdd.key}

\* C14: getRecentPlants(n) lists the profiles of the most recently inserted
\* keys, the latest insertion first; for n >= 1 these are the n latest
\* insertions, or all the registry lists when it has fewer.
C14_RecentOrder ==
    recent # NoRecent =>
        LET latestFirst == Reverse(held)
            n == Len(recent.result)
        IN  /\ n <= Len(latestFirst)
            /\ \A i \in 1..n : recent.result[i] = Lookup(plants, latestFirst[i]).plant
            /\ recent.count >= 1 => n = Min(recent.count, Min(Len(held), maxPlants))

\* Four profiles inserted under four keys A, B, C, D in that order:
\* getRecentPlants(3) answered [D, C, B].
C14_Witness ==
    /\ recent.count = 3
    /\ Len(plants) = 4
    /\ Cardinality({plants[i].plant : i \in 1..4}) = 4
    /\ \A i \in 1..4 : plants[i].key # <<>>
    /\ held = [i \in 1..4 |-> plants[i].key]
    /\ recent.result = <<plants[4].plant, plants[3].plant, plants[2].plant>>

\* C15: no profile occurs twice in the result of getRecentPlants(n), also
\* when a profile is registered under its slug and under its common name.
C15_RecentDistinct ==
    recent # NoRecent =>
        \A i, j \in 1..Len(recent.result) :
            i # j => recent.result[i] # recent.result[j]

\* C16: getRecentPlants(n) returns at most n profiles, for every n >= 0.
C16_RecentAtMost ==
    recent # NoRecent => Len(recent.result) <= recent.count

\* ======================================================================
\* Properties of the name resolution
\* ======================================================================

\* the cache holds the profile under the key
Holds(es, k, profile) == Has(es, k) /\ Lookup(es, k).data = profile

\* the registry holds the profile under the key, as addPlant() normalizes it
Registered(key, profile) ==
    /\ Has(plants, Trim(ToLowerCase(key)))
    /\ Lookup(plants, Trim(ToLowerCase(key))).plant = profile

\* the latest call is findPlantByName(name), and the call before it was
\* findPlantByName(name) too and returned
Repeated == task.op = "findPlantByName" /\ task.prior.known

\* the call made no request() and returned what the call before it returned
ServedLocally ==
    /\ task.requests = 0
    /\ task.pc = "done"
    /\ task.outcome = "returned"
    /\ task.value = task.prior.value

C21_SearchLimit ==
    (task.op = "searchPlants" /\ task.pc = "done" /\ task.outcome = "returned") =>
        Len(task.results) <= task.limit

\* getSpeciesById or getSpeciesBySlug, called by itself or by findPlantByName,
\* has missed the cache, made its request() and returned
Fetched ==
    /\ task.pc = "done"
    /\ task.outcome = "returned"
    /\ \/ task.op \in {"getSpeciesById", "getSpeciesBySlug"} /\ task.requests = 1
       \/ task.op = "findPlantByName" /\ task.id # 0

Stages == <<"registry", "commonName", "search", "getSpeciesById">>

\* what the registry and the common-name cache answered when the call began
FoundInRegistry == FindPlant(task.before.registry, task.name)

FoundInCache ==
    CacheGet(task.before.caches["commonName"], ToLowerCase(task.name), task.at, ttlMs("commonName"))

\* C19: findPlantByName consults the registry, then the common-name cache,
\* then the search with at most 5 results, then getSpeciesById for the best
\* match; a hit in the registry or in the common-name cache returns without
\* touching a later stage, and an empty search result returns null without
\* getSpeciesById.
C19_LookupOrder ==
    (task.op = "findPlantByName" /\ task.pc = "done") =>
        /\ task.trace = SubSeq(Stages, 1, Len(task.trace))
        /\ Len(task.trace) >= 1
        /\ Len(task.results) <= 5
        /\ FoundInRegistry # NoProfile =>
              /\ task.trace = <<"registry">>
              /\ task.value = FoundInRegistry
              /\ task.requests = 0
              /\ caches = task.before.caches
        /\ (FoundInRegistry = NoProfile /\ CacheHit(FoundInCache, ToLowerCase(task.name))) =>
              /\ task.trace = <<"registry", "commonName">>
              /\ task.value = FoundInCache.value
              /\ task.requests = 0
              /\ caches["searchResults"] = task.before.caches["searchResults"]
              /\ caches["species"] = task.before.caches["species"]
        /\ (task.outcome = "returned" /\ Len(task.trace) >= 3 /\ task.results = <<>>) =>
              /\ task.trace = <<"registry", "commonName", "search">>
              /\ task.value = NoProfile
              /\ caches["species"] = task.before.caches["species"]
              /\ plants = task.before.registry.plants
        /\ (task.outcome = "returned" /\ task.results # <<>>) =>
              /\ task.trace = Stages
              /\ task.value.id = FindBestMatch(task.name, task.results).id

\* a call that the common-name cache answered
C19_Witness ==
    /\ task.op = "findPlantByName"
    /\ task.pc = "done"
    /\ task.trace = <<"registry", "commonName">>
    /\ task.value # NoProfile

\* number of entries of a Map, and of elements of an array, with the key
Count(es, k) == Cardinality({i \in 1..Len(es) : es[i].key = k})

Occurrences(arr, k) == Cardinality({i \in 1..Len(arr) : arr[i] = k})

\* both callers asked for the same id, the call of one began while the call
\* of the other was waiting for its response, both made a request() and both
\* have returned
Raced ==
    /\ \A p \in Racers :
          /\ flights[p].pc = "done"
          /\ flights[p].outcome = "returned"
          /\ flights[p].requests = 1
    /\ flights[1].id = flights[2].id
    /\ \E p \in Racers : flights[p].trace = <<"concurrent">>

\* C29: after two concurrent getSpeciesById(id) on an uncached id have both
\* made their request and returned, both have returned a profile with that
\* id, the species cache holds one entry for the id and one for the slug, and
\* the registry holds the slug key and the common-name key once each: once
\* in its Map, and once in its order of insertion (a key that is the empty
\* string may have left that order before the calls, and is then not in it
\* twice).
C29_Idempotent ==
    Raced =>
        LET p == flights[1].value
            idKey == createSpeciesKey(NumberToString(flights[1].id))
            slugKey == createSpeciesKey(p.slug)
            keys == {Trim(ToLowerCase(p.slug))} \cup
                    (IF Truthy(p.commonName) THEN {Trim(ToLowerCase(p.commonName))} ELSE {})
        IN  /\ \A q \in Racers : flights[q].value = p /\ p.id = flights[q].id
            /\ Count(caches["species"], idKey) = 1
            /\ Count(caches["species"], slugKey) = 1
            /\ Holds(caches["species"], idKey, p)
            /\ Holds(caches["species"], slugKey, p)
            /\ \A k \in keys :
                  /\ Count(plants, k) = 1
                  /\ Lookup(plants, k).plant = p
                  /\ Occurrences(mentionOrder, k) <= 1
                  /\ Truthy(k) => Occurrences(mentionOrder, k) = 1

C29_Witness ==
    /\ Raced
    /\ Len(plants) = maxPlants
    /\ Truthy(flights[1].value.commonName)

\* ======================================================================
\* Properties of the extractor
Extracted == extraction.op = "extractPlantMentions"

FromHistory == extraction.op = "extractPlantMentionsFromHistory"

\* the vocabulary names that the text contains as a standalone word
StandaloneNames(text) ==
    {COMMON_PLANT_NAMES[i] : i \in
        {j \in 1..Len(COMMON_PLANT_NAMES) : WordMatch(ToLowerCase(text), COMMON_PLANT_NAMES[j])}}

\* C22: for every text that contains a vocabulary name as a standalone word,
\* and every state of the registry, extractPlantMentions returns a mention
\* with that name as normalizedName and with confidence high.
C22_VocabularyRecall ==
    Extracted =>
        \A name \in StandaloneNames(extraction.text) :
            \E i \in 1..Len(extraction.mentions) :
                /\ extraction.mentions[i].normalizedName = name
                /\ extraction.mentions[i].confidence = "high"

\* the matches of the three passes in the order registry, vocabulary, patterns
Passes == extraction.registryMatches \o extraction.exactMatches \o extraction.patternMatches

\* C23: extractPlantMentions never returns two mentions with the same
\* normalizedName, and the mention it returns for a name is the first match
\* with that name in the order of the passes: registry, exact vocabulary,
\* patterns.
C23_Dedup ==
    Extracted =>
        /\ \A i, j \in 1..Len(extraction.mentions) :
              extraction.mentions[i].normalizedName = extraction.mentions[j].normalizedName
                  => i = j
        /\ \A i \in 1..Len(extraction.mentions) :
              \E p \in 1..Len(Passes) :
                  /\ Passes[p] = extraction.mentions[i]
                  /\ \A q \in 1..(p - 1) :
                        Passes[q].normalizedName # extraction.mentions[i].normalizedName
        /\ \A p \in 1..Len(Passes) :
              \E i \in 1..Len(extraction.mentions) :
                  extraction.mentions[i].normalizedName = Passes[p].normalizedName

\* a name is matched by each of the three passes
C23_Witness ==
    /\ Extracted
    /\ \E r \in 1..Len(extraction.registryMatches) :
          /\ \E e \in 1..Len(extraction.exactMatches) :
                extraction.exactMatches[e].normalizedName =
                    extraction.registryMatches[r].normalizedName
          /\ \E m \in 1..Len(extraction.patternMatches) :
                extraction.patternMatches[m].normalizedName =
                    extraction.registryMatches[r].normalizedName

Rank(confidence) == CASE confidence = "high" -> 0 [] confidence = "medium" -> 1 [] OTHER -> 2

\* the place of a mention in the order of discovery
Discovery(mention) ==
    CHOOSE p \in 1..Len(extraction.discovered) : extraction.discovered[p] = mention

\* C24: the mentions extractPlantMentions returns are in non-decreasing order
\* of confidence rank (high, medium, low), and mentions of equal confidence
\* are in the order of their discovery.
C24_Ordering ==
    Extracted =>
        /\ Len(extraction.mentions) = Len(extraction.discovered)
        /\ \A i \in 1..Len(extraction.mentions) :
              \E p \in 1..Len(extraction.discovered) :
                  extraction.discovered[p] = extraction.mentions[i]
        /\ \A i, j \in 1..Len(extraction.mentions) :
              i < j =>
                  /\ Rank(extraction.mentions[i].confidence)
                        <= Rank(extraction.mentions[j].confidence)
                  /\ extraction.mentions[i].confidence = extraction.mentions[j].confidence
                        => Discovery(extraction.mentions[i]) < Discovery(extraction.mentions[j])

\* a mention of medium confidence was discovered before two of high confidence
C24_Witness ==
    /\ Extracted
    /\ Len(extraction.discovered) >= 3
    /\ extraction.discovered[1].confidence = "medium"
    /\ extraction.discovered[2].confidence = "high"
    /\ extraction.discovered[3].confidence = "high"

\* C25: a candidate of the pattern pass that was captured in the capitalized
\* two-word binomial form and is not a stopword gets confidence high, with a
\* context keyword nearby or without.
C25_BinomialHigh ==
    Extracted =>
        \A i \in 1..Len(extraction.assessed) :
            IsBinomial(extraction.assessed[i].candidate)
                => extraction.assessed[i].confidence = "high"

\* the mentions of the messages from the i-th down to the first
RECURSIVE NewestFirst(_, _)
NewestFirst(messages, i) ==
    IF i = 0 THEN <<>>
    ELSE ExtractPlantMentions(messages[i], plants) \o NewestFirst(messages, i - 1)

\* C26: extractPlantMentionsFromHistory(messages, limit) examines the
\* messages from the most recent to the oldest and returns at most limit
\* mentions with distinct normalizedName, those of more recent messages before
\* those of older ones, and it extracts no message once limit mentions are
\* collected.
C26_History ==
    FromHistory =>
        /\ Len(extraction.mentions) <= extraction.limit
        /\ \A i, j \in 1..Len(extraction.mentions) :
              extraction.mentions[i].normalizedName = extraction.mentions[j].normalizedName
                  => i = j
        /\ extraction.mentions =
              SliceTo(AddNew(<<>>, NewestFirst(extraction.messages, Len(extraction.messages))),
                      extraction.limit)
        /\ \A e \in 1..Len(extraction.extracted) :
              /\ extraction.extracted[e].collected < extraction.limit
              /\ \A f \in 1..(e - 1) :
                    extraction.extracted[f].message > extraction.extracted[e].message

\* the limit was reached in the most recent message, which had more mentions,
\* and the older message, which has mentions, was not extracted
C26_Witness ==
    /\ FromHistory
    /\ Len(extraction.messages) = 2
    /\ Len(extraction.mentions) = extraction.limit
    /\ Len(ExtractPlantMentions(extraction.messages[2], plants)) > extraction.limit
    /\ ExtractPlantMentions(extraction.messages[1], plants) # <<>>
    /\ Len(extraction.extracted) = 1

\* C28: a profile registered while a message of one conversation was handled
\* is never returned by findPlant, getRecentPlants or the registry pass of the
\* extractor while a message of another conversation is handled.
C28_RoomScoped ==
    \A i \in 1..Len(rooms.returned.plants) :
        rooms.returned.plants[i] \in rooms.registered[rooms.returned.room]

\* ======================================================================
\* Properties of getPlantInfo

\* the positions of the items whose lookup threw or returned null
FailedLookups ==
    SelectSeq([k \in 1..Len(batch.trail) |-> k],
              LAMBDA k : batch.trail[k].answer \in {"null", "threw"})

\* C27: batch isolation. getPlantInfo processes at most
\* MAX_PLANTS_PER_REQUEST items; each item processed is put in exactly one of
\* fetchedPlants and notFoundPlants; the mentions whose lookup threw or
\* returned null are exactly those of notFoundPlants, in order; the items after
\* a failed lookup are still processed, getPlantInfo returns and never throws,
\* and what it returns carries the two lists.
C27_BatchIsolation ==
    /\ batch.outcome # "threw"
    /\ Len(batch.items) <= MAX_PLANTS_PER_REQUEST
    /\ Len(batch.trail) = batch.i - 1
    /\ Len(batch.fetchedPlants) + Len(batch.notFoundPlants) = Len(batch.trail)
    /\ batch.notFoundPlants =
           [j \in 1..Len(FailedLookups) |-> batch.items[FailedLookups[j]].originalText]
    /\ \A k \in 1..Len(batch.trail) :
           batch.trail[k].disposed =
               IF batch.trail[k].answer \in {"null", "threw"} THEN "notFound" ELSE "resolved"
    /\ batch.pc = "done" =>
           /\ batch.outcome = "returned"
           /\ Len(batch.trail) = Len(batch.items)
           /\ batch.result.triggered
           /\ batch.result.plants = batch.fetchedPlants
           /\ batch.result.notFound = batch.notFoundPlants

\* a lookup threw, one returned null, and a later mention was resolved by the
\* client: getPlantInfo returned one plant and two names not found
C27_Witness ==
    /\ batch.pc = "done"
    /\ batch.outcome = "returned"
    /\ Len(batch.trail) = MAX_PLANTS_PER_REQUEST
    /\ batch.trail[1].answer = "threw"
    /\ batch.trail[2].answer = "null"
    /\ batch.trail[3].answer = "plant"
    /\ Len(batch.result.plants) = 1
    /\ Len(batch.result.notFound) = 2

\* ======================================================================
\* Properties of findBestMatch
\* ======================================================================

\* the name as the matchers compare it
MatchedName == Trim(ToLowerCase(matchQuery))

\* the matchers that some result of the list satisfies
Satisfied == {m \in 1..NumMatchers : \E i \in 1..Len(matchResults) : Matcher(m, matchResults[i], MatchedName)}

\* C20: findBestMatch returns the first result that satisfies the matcher of
\* highest priority among the matchers some result satisfies (common name
\* equal, scientific name equal, common name prefix, scientific name prefix,
\* common name substring), and the first result when none is satisfied.
C20_BestMatch ==
    bestMatch # NoSpecies =>
        IF Satisfied = {}
        THEN bestMatch = matchResults[1]
        ELSE LET top == CHOOSE m \in Satisfied : \A n \in Satisfied : m <= n
             IN  \E i \in 1..Len(matchResults) :
                    /\ bestMatch = matchResults[i]
                    /\ Matcher(top, matchResults[i], MatchedName)
                    /\ \A j \in 1..(i - 1) : ~Matcher(top, matchResults[j], MatchedName)

\* The last result of the list was returned: it is the only one whose common
\* name equals the name, the results before it satisfy matchers of lower priority.
C20_Witness ==
    /\ bestMatch # NoSpecies
    /\ Len(matchResults) = MaxResults
    /\ bestMatch = matchResults[MaxResults]
    /\ Matcher(1, bestMatch, MatchedName)
    /\ \A j \in 1..(MaxResults - 1) :
          /\ ~Matcher(1, matchResults[j], MatchedName)
          /\ \E m \in 2..NumMatchers : Matcher(m, matchResults[j], MatchedName)

\* ======================================================================
\* Properties of set() on a key the cache holds

\* C33: overwriting does not evict. A set(k, v) on a key k that a cache at
\* capacity already holds replaces the entry of k only: the cache holds the
\* keys it held before the call, and as many.
C33_OverwriteKeeps ==
    \A k \in TestKeys :
        (sweep.op = "set" /\ lastSet[k].at = now /\ k \in Keys(sweep.before)
            /\ MapDelete(caches[cut], k) = MapDelete(sweep.kept, k)) =>
            /\ Keys(caches[cut]) = Keys(sweep.before)
            /\ Len(caches[cut]) = Len(sweep.before)

\* ======================================================================
\* Properties of the registry's index

\* C34: registry index consistency. After any addPlant and clear calls,
\* mentionOrder holds no key twice and holds exactly the keys of the Map of
\* profiles, so size is the length of mentionOrder.
C34_IndexConsistent ==
    /\ \A i, j \in 1..Len(mentionOrder) : i # j => mentionOrder[i] # mentionOrder[j]
    /\ Elements(mentionOrder) = Keys(plants)
    /\ Len(plants) = Len(mentionOrder)

\* the position of key k in the list of keys ks, 0 if it is not there
PositionOf(ks, k) ==
    IF \E i \in 1..Len(ks) : ks[i] = k THEN CHOOSE i \in 1..Len(ks) : ks[i] = k ELSE 0

\* addPlant(key, plant) was called on a registry that holds the key and
\* did what C35 says
ReRegistered(key, plant) ==
    LET k == Trim(ToLowerCase(key))
    IN  (adds' = adds + 1 /\ lastAdd'.key = k /\ Has(plants, k) /\ AddPlantAct(key, plant)) =>
            /\ Lookup(plants', k).plant = plant
            /\ [i \in 1..Len(plants') |-> plants'[i].key] = [i \in 1..Len(plants) |-> plants[i].key]
            /\ \A i \in 1..Len(plants) : plants[i].key # k => plants'[i] = plants[i]
            /\ mentionOrder' = mentionOrder
            /\ PositionOf(mentionOrder', k) = PositionOf(mentionOrder, k)

\* C35: re-registering a key. addPlant(k, p) for a key whose lower-cased,
\* trimmed form is registered stores p under it, removes no key even when the
\* registry is full, and leaves mentionOrder, hence the place of k in the
\* eviction and recency order, as it was.
C35_ReRegister ==
    [][\A call \in RegistryCalls : ReRegistered(call[1], call[2])]_vars

\* A full registry holds the slug "ab" of the first species; addPlant("Ab", p)
\* with the third species's profile, whose common name is "Ab", left 20 keys
\* and stored that profile under "ab".
C35_Witness ==
    /\ lastAdd.key = <<"a", "b">>
    /\ lastAdd.key \in Elements(lastAdd.before)
    /\ Len(lastAdd.before) = maxPlants
    /\ Len(mentionOrder) = maxPlants
    /\ Has(plants, <<"b", "a">>)
    /\ Lookup(plants, lastAdd.key).plant = ProcessSpeciesData(Species[3])

\* ======================================================================
\* Properties of the mentions returned

\* the normal form of a name: lower case, trimmed, whitespace runs collapsed
NormalForm(name) == CollapseSpaces(Trim(ToLowerCase(name)))

\* C31: mention name normal form. Every mention extractPlantMentions returns,
\* from any of its passes and whatever the registry holds, has a
\* normalizedName that is lower case, trimmed and has each run of whitespace
\* inside it collapsed to one space.
C31_NormalForm ==
    Extracted =>
        \A i \in 1..Len(extraction.mentions) :
            extraction.mentions[i].normalizedName =
                NormalForm(extraction.mentions[i].normalizedName)

\* C36: no low-confidence output. Whatever the text and the registry,
\* extractPlantMentions and extractPlantMentionsFromHistory return no mention
\* of confidence low: a pattern candidate of the vocabulary is scored high,
\* and every candidate scored low is discarded.
C36_NoLow ==
    /\ (Extracted \/ FromHistory) =>
          \A i \in 1..Len(extraction.mentions) : extraction.mentions[i].confidence # "low"
    /\ Extracted =>
          \A i \in 1..Len(extraction.assessed) :
              /\ IsPlantName(extraction.assessed[i].argument)
                    => extraction.assessed[i].confidence = "high"
              /\ extraction.assessed[i].confidence = "low" =>
                    \A j \in 1..Len(extraction.patternMatches) :
                        extraction.patternMatches[j].normalizedName #
                            extraction.assessed[i].argument

\* The pattern pass scored one candidate low and discarded it, and scored a
\* candidate of the vocabulary high: no mention returned has its name, or has
\* confidence low.
C36_Witness ==
    /\ Extracted
    /\ extraction.mentions # <<>>
    /\ \E i \in 1..Len(extraction.assessed) :
          /\ extraction.assessed[i].confidence = "low"
          /\ \A j \in 1..Len(extraction.mentions) :
                extraction.mentions[j].normalizedName # extraction.assessed[i].argument
    /\ \E i \in 1..Len(extraction.assessed) :
          /\ IsPlantName(extraction.assessed[i].argument)
          /\ extraction.assessed[i].confidence = "high"

\* ======================================================================
\* Properties of a call of the client that fails

\* request() threw inside searchPlants, getSpeciesById or getSpeciesBySlug
Failed ==
    /\ task.pc = "done"
    /\ task.outcome = "threw"
    /\ task.op \in {"searchPlants", "getSpeciesById", "getSpeciesBySlug"}

\* the cache the call consulted before its request()
ConsultedCache == IF task.op = "searchPlants" THEN "searchResults" ELSE "species"

\* the key it consulted the cache with
ConsultedKey ==
    IF task.op = "searchPlants" THEN normalizeSearchKey(task.name)
    ELSE IF task.op = "getSpeciesBySlug" THEN createSpeciesKey(task.slug)
    ELSE createSpeciesKey(NumberToString(task.id))

RegistryAsBefore ==
    /\ plants = task.before.registry.plants
    /\ mentionOrder = task.before.registry.mentionOrder

\* C32 as stated: when request() throws inside searchPlants, getSpeciesById
\* or getSpeciesBySlug, the three caches and the registry hold exactly what
\* they held before the call.
C32_FailureFrame ==
    Failed => caches = task.before.caches /\ RegistryAsBefore

\* C32, amended: when request() throws inside searchPlants, getSpeciesById or
\* getSpeciesBySlug, the registry holds what it held before the call, and so
\* does each cache except for the entry of the key of the call if it had
\* expired when the call began: the get() of the call has removed it. No
\* entry is added or written.
C32_FailureFrameLive ==
    Failed =>
        /\ RegistryAsBefore
        /\ \A c \in CacheNames :
              caches[c] =
                  IF c = ConsultedCache
                  THEN SelectSeq(task.before.caches[c],
                                 LAMBDA e : ~(e.key = ConsultedKey
                                              /\ Expired(e, task.at, ttlMs(c))))
                  ELSE task.before.caches[c]

\* getSpeciesById was called when the caches and the registry held a profile
\* and the entry of its key had expired; its request() threw: that entry is
\* gone and everything else is as before the call.
C32_Witness ==
    /\ Failed
    /\ task.op = "getSpeciesById"
    /\ task.before.registry.plants # <<>>
    /\ task.before.caches["commonName"] # <<>>
    /\ Has(task.before.caches["species"], ConsultedKey)
    /\ ~Has(caches["species"], ConsultedKey)
    /\ caches["species"] # <<>>

\* ======================================================================
\* Properties of initialize()

\* the attempts in the given state
AttemptsIn(state) ==
    {k \in 1..Len(runtime.attempts) : runtime.attempts[k] = state}

\* at most one doInitialize() is in flight and none follows one that
\* succeeded; a caller that awaited an attempt got that attempt's outcome;
\* isInitialized is set by a success only; a promise that is held is the
\* latest one and its failure has not been handled; with no promise held the
\* latest attempt failed, was handled, and isInitialized is false
SingleFlight ==
    /\ Cardinality(AttemptsIn("pending")) <= 1
    /\ \A k \in AttemptsIn("fulfilled") : k = Len(runtime.attempts)
    /\ \A c \in Callers :
          runtime.callers[c].pc = "done" /\ runtime.callers[c].awaits # 0 =>
              runtime.callers[c].outcome =
                  IF runtime.attempts[runtime.callers[c].awaits] = "fulfilled"
                  THEN "returned" ELSE "threw"
    /\ \A c \in Callers :
          runtime.callers[c].pc = "awaiting" =>
              \/ c \in {runtime.waiting[i] : i \in 1..Len(runtime.waiting)}
              \/ c \in {runtime.jobs[i] : i \in 1..Len(runtime.jobs)}
    /\ runtime.isInitialized => AttemptsIn("fulfilled") # {}
    /\ runtime.initializationPromise # 0 =>
          /\ runtime.initializationPromise = Len(runtime.attempts)
          /\ runtime.handled # runtime.initializationPromise
    /\ (runtime.initializationPromise = 0 /\ runtime.attempts # <<>>) =>
          /\ runtime.attempts[Len(runtime.attempts)] = "rejected"
          /\ runtime.handled = Len(runtime.attempts)
          /\ ~runtime.isInitialized

\* a call of initialize() after the failure of the latest attempt was handled
\* starts a new doInitialize()
FreshAfterFailure ==
    (/\ runtime'.calls = runtime.calls + 1
     /\ runtime.attempts # <<>>
     /\ runtime.handled = Len(runtime.attempts)) =>
        /\ Len(runtime'.attempts) = Len(runtime.attempts) + 1
        /\ runtime'.attempts[Len(runtime'.attempts)] = "pending"
        /\ runtime'.initializationPromise = Len(runtime'.attempts)

\* C39: single-flight initialisation. In every interleaving of initialize()
\* calls at most one doInitialize() is in flight, none is started after one
\* has succeeded, every caller that awaited a failed one observes the failure
\* and none of them sets isInitialized, and once the failure is handled the
\* next initialize() starts a fresh doInitialize().
C39_SingleFlight == [][SingleFlight' /\ FreshAfterFailure]_vars

\* The first doInitialize() failed: the caller that made it and one that was
\* handed its promise both saw the error; a later initialize() made a second
\* one, which succeeded.
C39_Witness ==
    /\ runtime.attempts = <<"rejected", "fulfilled">>
    /\ runtime.isInitialized
    /\ \E c, d \in Callers :
          /\ runtime.callers[c] = [pc |-> "done", awaits |-> 1, role |-> "handed", outcome |-> "threw"]
          /\ runtime.callers[d] = [pc |-> "done", awaits |-> 2, role |-> "maker", outcome |-> "returned"]

\* ======================================================================
\* Properties of getPlantContext

\* getPlantContext has returned
ContextProvided == context.op = "getPlantContext" /\ context.pc = "done"

\* C37: the rawPlants list getPlantContext returns has at most 5 entries and
\* no two entries with the same profile id, whatever the message, the
\* history and the registry.
C37_EachProfileOnce ==
    ContextProvided =>
        /\ Len(context.rawPlants) <= MAX_PLANTS_TO_FETCH
        /\ \A a, b \in 1..Len(context.rawPlants) :
              context.rawPlants[a].id = context.rawPlants[b].id => a = b

\* ======================================================================
\* Properties of the module without a client

\* no lookup was started, nothing was sent, and the caches and the registry
\* are what they were
Untouched ==
    /\ context'.pc # "fetch"
    /\ context'.fetched = 0
    /\ batch'.pc \notin {"lookup", "search"}
    /\ UNCHANGED <<outbound, requestTimes, cacheVars, registryVars>>

\* C38: while isClientInitialized() is false, getPlantContext returns the
\* empty result, getPlantInfo returns triggered = false with empty lists and
\* shouldTriggerPlantInfo returns false, each without a lookup or a change
\* to the caches or the registry; initializeTrefleClient throws exactly for
\* an empty or blank token, and then leaves clientInstance as it was.
C38_Uninitialised ==
    [][/\ (~IsClientInitialized(trefle) /\ context.pc = "idle" /\ context'.pc # "idle") =>
              /\ context'.pc = "done"
              /\ context'.rawPlants = <<>>
              /\ context'.returned = FALSE
              /\ Untouched
       /\ (~IsClientInitialized(trefle) /\ batch.pc = "idle" /\ batch'.pc # "idle") =>
              /\ batch'.pc = "done"
              /\ batch'.outcome = "returned"
              /\ batch'.result = [plants |-> <<>>, notFound |-> <<>>, triggered |-> FALSE]
              /\ Untouched
       /\ trefle' # trefle =>
              /\ trefle'.lastInit.threw = TokenRejected(trefle'.lastInit.token)
              /\ trefle'.lastInit.threw => trefle'.clientInstance = trefle.clientInstance
              /\ ~trefle'.lastInit.threw => IsClientInitialized(trefle')]_vars

\* The three entry points were called on a registry that holds a profile,
\* getPlantContext and getPlantInfo before a client was installed; then a
\* client was installed, and a call with a blank token threw and left it.
C38_Witness ==
    /\ context.op = "getPlantContext"
    /\ context.pc = "done"
    /\ ~context.initialized
    /\ context.rawPlants = <<>>
    /\ batch.pc = "done"
    /\ batch.result.triggered = FALSE
    /\ plants # <<>>
    /\ trefle.lastInit = [token |-> <<" ">>, threw |-> TRUE, previous |-> <<"t">>]
    /\ trefle.clientInstance = <<"t">>

====
